---- MODULE Spec2Model ----
(***************************************************************************)
(* HSDB SQL parser (package parser): the scanner, the cursor, the          *)
(* step-indexed state machine of parser.doParse and the entry points       *)
(* Parse / ParseMany.                                                      *)
(*                                                                         *)
(* A Go string is a sequence of one-character strings; the cursor          *)
(* position is the 0-based byte offset of the code, so the byte            *)
(* p.sql[i] of the code is p.sql[i + 1] here.  All inputs are ASCII.       *)
(***************************************************************************)
EXTENDS Integers, Sequences, FiniteSets, TLC

-----------------------------------------------------------------------------
(* Bounds of the model *)

\* the main loop is followed for at most MaxSpin iterations that change nothing
MaxSpin == 2
\* longest batch of texts handed to ParseMany
MaxTexts == 3
\* longest generated field / table / column / value list
MaxList == 2
\* most values a stored column is let grow to
MaxRows == 2

-----------------------------------------------------------------------------
(* Characters *)

LowerLetters == <<"a","b","c","d","e","f","g","h","i","j","k","l","m",
                  "n","o","p","q","r","s","t","u","v","w","x","y","z">>

UpperLetters == <<"A","B","C","D","E","F","G","H","I","J","K","L","M",
                  "N","O","P","Q","R","S","T","U","V","W","X","Y","Z">>

Digits == {"0","1","2","3","4","5","6","7","8","9"}

LowerSet == {LowerLetters[i] : i \in 1..26}

UpperSet == {UpperLetters[i] : i \in 1..26}

\* the character class [a-zA-Z0-9_*] of peekIdentifierWithLength
IdentChars == LowerSet \cup UpperSet \cup Digits \cup {"_", "*"}

\* the character class [a-zA-Z_] that starts the pattern of isIdentifier
IdentStartChars == LowerSet \cup UpperSet \cup {"_"}

\* the characters strings.TrimSpace removes
WhiteSpace == {" ", "\t", "\n", "\r"}

UpperOf == [c \in LowerSet |-> UpperLetters[CHOOSE i \in 1..26 : LowerLetters[i] = c]]

ToUpperChar(c) == IF c \in LowerSet THEN UpperOf[c] ELSE c

RECURSIVE ToUpper(_)
\* strings.ToUpper
ToUpper(s) == IF s = <<>> THEN <<>> ELSE <<ToUpperChar(Head(s))>> \o ToUpper(Tail(s))

MinOf(S) == CHOOSE x \in S : \A y \in S : x <= y

min(a, b) == IF a < b THEN a ELSE b

\* the Go slice s[from:to] (0-based, to exclusive)
Slice(s, from, to) == SubSeq(s, from + 1, to)

RECURSIVE JoinWith(_, _)
\* strings.Join: the strings of ss separated by sep
JoinWith(ss, sep) ==
  IF ss = <<>> THEN <<>>
  ELSE IF Len(ss) = 1 THEN ss[1]
  ELSE ss[1] \o sep \o JoinWith(Tail(ss), sep)

\* strings.TrimSpace
TrimSpace(s) ==
  LET keep == {i \in 1..Len(s) : s[i] \notin WhiteSpace}
  IN IF keep = {} THEN <<>>
     ELSE SubSeq(s, MinOf(keep), CHOOSE x \in keep : \A y \in keep : y <= x)

-----------------------------------------------------------------------------
(* The vocabulary *)

SP == <<" ">>
LP == <<"(">>
RP == <<")">>
GE == <<">", "=">>
LE == <<"<", "=">>
NE == <<"!", "=">>
COMMA == <<",">>
EQ == <<"=">>
GT == <<">">>
LT == <<"<">>
QUOTE == <<"'">>
SEMI == <<";">>
W_SELECT == <<"S","E","L","E","C","T">>
W_INSERT_INTO == <<"I","N","S","E","R","T"," ","I","N","T","O">>
W_VALUES == <<"V","A","L","U","E","S">>
W_UPDATE == <<"U","P","D","A","T","E">>
W_SET == <<"S","E","T">>
W_DELETE_FROM == <<"D","E","L","E","T","E"," ","F","R","O","M">>
W_CREATE_TABLE == <<"C","R","E","A","T","E"," ","T","A","B","L","E">>
W_CREATE_VIEW == <<"C","R","E","A","T","E"," ","V","I","E","W">>
W_CREATE_INDEX == <<"C","R","E","A","T","E"," ","I","N","D","E","X">>
W_CREATE_USER == <<"C","R","E","A","T","E"," ","U","S","E","R">>
W_CHECK == <<"C","H","E","C","K">>
W_WHERE == <<"W","H","E","R","E">>
W_FROM == <<"F","R","O","M">>
W_AND == <<"A","N","D">>
W_IN == <<"I","N">>
W_NOT_IN == <<"N","O","T"," ","I","N">>
W_LIKE == <<"L","I","K","E">>
W_NOT_LIKE == <<"N","O","T"," ","L","I","K","E">>
W_GROUP_BY == <<"G","R","O","U","P"," ","B","Y">>
W_ORDER_BY == <<"O","R","D","E","R"," ","B","Y">>
W_HAVING == <<"H","A","V","I","N","G">>
W_BETWEEN == <<"B","E","T","W","E","E","N">>
W_NOT_BETWEEN == <<"N","O","T"," ","B","E","T","W","E","E","N">>
W_IDENTIFIED_BY == <<"I","D","E","N","T","I","F","I","E","D"," ","B","Y">>
W_ON_TABLE == <<"O","N"," ","T","A","B","L","E">>
W_TO == <<"T","O">>
W_GRANT == <<"G","R","A","N","T">>
W_REVOKE == <<"R","E","V","O","K","E">>
W_NOT_NULL == <<"N","O","T"," ","N","U","L","L">>
W_UNIQUE == <<"U","N","I","Q","U","E">>
W_PRIMARY_KEY == <<"P","R","I","M","A","R","Y"," ","K","E","Y">>
W_FOREIGN_KEY == <<"F","O","R","E","I","G","N"," ","K","E","Y">>
W_REFERENCES == <<"R","E","F","E","R","E","N","C","E","S">>
\* words the state machine compares tokens with that are not in legalWords
W_OR == <<"O","R">>
W_AS == <<"A","S">>
W_ON == <<"O","N">>
W_DEFAULT == <<"D","E","F","A","U","L","T">>
W_SMALLINT == <<"S","M","A","L","L","I","N","T">>
W_DOUBLE == <<"D","O","U","B","L","E">>
W_VARCHAR == <<"V","A","R","C","H","A","R">>
W_DATETIME == <<"D","A","T","E","T","I","M","E">>
STAR == <<"*">>

\* a vocabulary that lists ">" and "<" before ">=" and "<="
legalWords_shortFirst ==
  << LP, RP, GT, LT, GE, LE, NE, COMMA, EQ,
     W_SELECT, W_INSERT_INTO, W_VALUES, W_UPDATE, W_SET, W_DELETE_FROM,
     W_CREATE_TABLE, W_CREATE_VIEW, W_CREATE_INDEX, W_CREATE_USER, W_CHECK,
     W_WHERE, W_FROM, W_AND, W_IN, W_NOT_IN, W_LIKE, W_NOT_LIKE, W_GROUP_BY,
     W_ORDER_BY, W_HAVING, W_BETWEEN, W_NOT_BETWEEN, W_IDENTIFIED_BY,
     W_ON_TABLE, W_TO, W_GRANT, W_REVOKE, W_NOT_NULL, W_UNIQUE,
     W_PRIMARY_KEY, W_FOREIGN_KEY, W_REFERENCES >>

legalWords ==
  << LP, RP, GE, LE, NE, COMMA, EQ, GT, LT,
     W_SELECT, W_INSERT_INTO, W_VALUES, W_UPDATE, W_SET, W_DELETE_FROM,
     W_CREATE_TABLE, W_CREATE_VIEW, W_CREATE_INDEX, W_CREATE_USER, W_CHECK,
     W_WHERE, W_FROM, W_AND, W_IN, W_NOT_IN, W_LIKE, W_NOT_LIKE, W_GROUP_BY,
     W_ORDER_BY, W_HAVING, W_BETWEEN, W_NOT_BETWEEN, W_IDENTIFIED_BY,
     W_ON_TABLE, W_TO, W_GRANT, W_REVOKE, W_NOT_NULL, W_UNIQUE,
     W_PRIMARY_KEY, W_FOREIGN_KEY, W_REFERENCES >>

-----------------------------------------------------------------------------
(* Data model *)

\* Condition{Operand1: op1, Operand1IsField: true}, the other fields zero
NewCondition(op1) ==
  [ Operand1 |-> op1, Operand2 |-> <<>>, Operator |-> "UnknownOperator",
    Operand1IsField |-> TRUE, Operand2IsField |-> FALSE,
    IsBetween |-> FALSE, IsNotBetween |-> FALSE,
    BetweenOperand1 |-> <<>>, BetweenOperand2 |-> <<>>,
    IsIn |-> FALSE, IsNotIn |-> FALSE, InConditions |-> <<>> ]

\* Field{Name: name}, the other fields zero
NewField(name) ==
  [ Name |-> name, DataType |-> "UnknownDataType", DataLength |-> 0,
    Constraint |-> <<>>, CheckConditions |-> <<>>,
    CheckConditionsOperator |-> <<>>,
    PrimaryKey |-> FALSE, NotNull |-> FALSE, Unique |-> FALSE,
    ForeignKey |-> FALSE, ForeignKeyFlag |-> FALSE,
    ForeignKeyReferenceTable |-> <<>>, ForeignKeyReferenceField |-> <<>> ]

\* Sql{}: the zero value.  Updates is a function from column names to
\* literals; the nil map and the empty map are both the empty function.
ZeroSql ==
  [ Type |-> "Unknown", Tables |-> <<>>, Conditions |-> <<>>,
    Updates |-> <<>>, Inserts |-> <<>>, Fields |-> <<>>,
    CreateFields |-> <<>>, ConditionOperators |-> <<>>, ViewSelect |-> <<>> ]

\* the parser built by parse(sql)
NewParser(sql) ==
  [ sql |-> TrimSpace(sql), position |-> 0, query |-> ZeroSql,
    step |-> "stepBeginning", nextUpdateField |-> <<>> ]

\* the nil error
Nil == "nil"

-----------------------------------------------------------------------------
(* Scanner and cursor *)

\* a match of the text as written, in whatever case
MatchesAt_asWritten(sql, position, lw) ==
  LET end == min(Len(sql), position + Len(lw))
  IN /\ end - position = Len(lw)
     /\ \A j \in 1..Len(lw) : sql[position + j] = lw[j]

\* a match that ends at a word boundary: no identifier character follows a
\* word of letters
MatchesAt_wholeWord(sql, position, lw) ==
  LET end == min(Len(sql), position + Len(lw))
  IN /\ end - position = Len(lw)
     /\ \A j \in 1..Len(lw) : ToUpperChar(sql[position + j]) = lw[j]
     /\ (lw[1] \in UpperSet /\ end < Len(sql)) => sql[end + 1] \notin IdentChars

\* strings.ToUpper(sql[position : min(len, position+len(lw))]) == lw
MatchesAt(sql, position, lw) ==
  LET end == min(Len(sql), position + Len(lw))
  IN /\ end - position = Len(lw)
     /\ \A j \in 1..Len(lw) : ToUpperChar(sql[position + j]) = lw[j]

\* a scan that stops at the first quote after the opening one, escaped or not
peekQuotedStringWithLength_anyQuote(p) ==
  IF Len(p.sql) < p.position \/ p.sql[p.position + 1] # "'"
  THEN [tok |-> <<>>, len |-> 0]
  ELSE LET closing == {i \in (p.position + 1)..(Len(p.sql) - 1) : p.sql[i + 1] = "'"}
       IN IF closing = {} THEN [tok |-> <<>>, len |-> 0]
          ELSE LET i == MinOf(closing)
               IN [tok |-> Slice(p.sql, p.position + 1, i),
                   len |-> (i - (p.position + 1)) + 2]

peekQuotedStringWithLength(p) ==
  IF Len(p.sql) < p.position \/ p.sql[p.position + 1] # "'"
  THEN [tok |-> <<>>, len |-> 0]
  ELSE LET closing == {i \in (p.position + 1)..(Len(p.sql) - 1) :
                          p.sql[i + 1] = "'" /\ p.sql[i] # "\\"}
       IN IF closing = {} THEN [tok |-> <<>>, len |-> 0]
          ELSE LET i == MinOf(closing)
               IN [tok |-> Slice(p.sql, p.position + 1, i),
                   len |-> (i - (p.position + 1)) + 2]

peekIdentifierWithLength(p) ==
  LET stop == {i \in p.position..(Len(p.sql) - 1) : p.sql[i + 1] \notin IdentChars}
  IN IF stop # {}
     THEN [tok |-> Slice(p.sql, p.position, MinOf(stop)),
           len |-> MinOf(stop) - p.position]
     ELSE [tok |-> Slice(p.sql, p.position, Len(p.sql)),
           len |-> Len(p.sql) - p.position]

\* the index in legalWords of the first entry that matches at the cursor, 0 if none
FirstLegalWord(p) ==
  LET m == {i \in 1..Len(legalWords) : MatchesAt(p.sql, p.position, legalWords[i])}
  IN IF m = {} THEN 0 ELSE MinOf(m)

peekWithLength(p) ==
  IF p.position >= Len(p.sql) THEN [tok |-> <<>>, len |-> 0]
  ELSE LET w == FirstLegalWord(p)
       IN IF w # 0 THEN [tok |-> legalWords[w], len |-> Len(legalWords[w])]
          ELSE IF p.sql[p.position + 1] = "'" THEN peekQuotedStringWithLength(p)
          ELSE peekIdentifierWithLength(p)

peek(p) == peekWithLength(p).tok

\* the position after the run of ' ' that starts at position
popWhitespace(sql, position) ==
  LET stop == {i \in position..(Len(sql) - 1) : sql[i + 1] # " "}
  IN IF position >= Len(sql) THEN position
     ELSE IF stop = {} THEN Len(sql) ELSE MinOf(stop)

\* a pop that moves past the token only
pop_tokenOnly(p) == [p EXCEPT !.position = p.position + peekWithLength(p).len]

\* the parser after p.pop()
pop(p) ==
  [p EXCEPT !.position = popWhitespace(p.sql, p.position + peekWithLength(p).len)]

\* the rest of the input in upper case, as peek returns a word
peekToEnd_upper(p) == ToUpper(Slice(p.sql, p.position, Len(p.sql)))

peekToEnd(p) == Slice(p.sql, p.position, Len(p.sql))

\* a popToEnd that adds the length of the whole text
popToEnd_wholeText(p) == [p EXCEPT !.position = p.position + Len(p.sql)]

popToEnd(p) == [p EXCEPT !.position = p.position + Len(peekToEnd(p))]

isIdentifier(s) ==
  /\ \A i \in 1..Len(legalWords) : ToUpper(s) # legalWords[i]
  /\ \E i \in 1..Len(s) : s[i] \in IdentStartChars

isIdentifierOrAsterisk(s) == isIdentifier(s) \/ s = STAR

-----------------------------------------------------------------------------
(* The state machine: one operator per case of the switch of doParse.      *)
(* Each gives the parser after the iteration and the error the iteration   *)
(* returns (Nil when the loop goes on).                                    *)

Ok(p) == [p |-> p, err |-> Nil]

Fail(p, msg) == [p |-> p, err |-> msg]

SetStep(p, s) == [p EXCEPT !.step = s]

\* the query type and the entry state of a first token
BeginType(tok) ==
  CASE tok = W_SELECT -> <<"Select", "stepSelectField">>
    [] tok = W_INSERT_INTO -> <<"Insert", "stepInsertTable">>
    [] tok = W_UPDATE -> <<"Update", "stepUpdateTable">>
    [] tok = W_DELETE_FROM -> <<"Delete", "stepDeleteFromTable">>
    [] tok = W_CREATE_TABLE -> <<"CreateTable", "stepCreateTableName">>
    [] tok = W_CREATE_VIEW -> <<"CreateView", "stepCreateViewName">>
    [] tok = W_CREATE_INDEX -> <<"CreateIndex", "stepCreateIndexName">>
    [] tok = W_CREATE_USER -> <<"CreateUser", "stepCreateUserName">>
    [] tok = W_GRANT -> <<"Grant", "stepGrantPrivilege">>
    [] tok = W_REVOKE -> <<"Revoke", "stepRevokePrivilege">>
    [] OTHER -> <<"Unknown", "stepBeginning">>

case_stepBeginning(p) ==
  LET t == BeginType(ToUpper(peek(p)))
      p1 == [p EXCEPT !.query.Type = t[1]]
  IN IF t[1] = "Unknown" THEN Fail(p1, "unknown query type")
     ELSE Ok(SetStep(pop(p1), t[2]))

case_stepSelectField(p) ==
  LET field == peek(p)
      p1 == pop([p EXCEPT !.query.Fields = Append(@, field)])
  IN IF ~isIdentifierOrAsterisk(field) THEN Fail(p, "at SELECT: expected field to SELECT")
     ELSE IF ToUpper(peek(p1)) = W_FROM THEN Ok(SetStep(p1, "stepSelectFrom"))
     ELSE Ok(SetStep(p1, "stepSelectComma"))

case_stepSelectComma(p) ==
  IF peek(p) # COMMA THEN Fail(p, "at SELECT: expected comma ',' or FROM")
  ELSE Ok(SetStep(pop(p), "stepSelectField"))

case_stepSelectFrom(p) ==
  IF ToUpper(peek(p)) # W_FROM THEN Fail(p, "at SELECT: expected FROM")
  ELSE Ok(SetStep(pop(p), "stepSelectFromTable"))

\* a table reference that replaces the tables read so far
case_stepSelectFromTable_replacing(p) ==
  LET tableName == peek(p)
      p1 == pop([p EXCEPT !.query.Tables = <<tableName>>])
  IN IF Len(tableName) = 0 THEN Fail(p, "at SELECT: expected quoted table name")
     ELSE IF peek(p1) = COMMA THEN Ok(SetStep(p1, "stepSelectFromTableComma"))
     ELSE Ok(SetStep(p1, "stepWhere"))

case_stepSelectFromTable(p) ==
  LET tableName == peek(p)
      p1 == pop([p EXCEPT !.query.Tables = Append(@, tableName)])
  IN IF Len(tableName) = 0 THEN Fail(p, "at SELECT: expected quoted table name")
     ELSE IF peek(p1) = COMMA THEN Ok(SetStep(p1, "stepSelectFromTableComma"))
     ELSE Ok(SetStep(p1, "stepWhere"))

case_stepSelectFromTableComma(p) ==
  IF peek(p) # COMMA THEN Fail(p, "at SELECT: expected comma or WHERE")
  ELSE Ok(SetStep(pop(p), "stepSelectFromTable"))

case_stepInsertTable(p) ==
  LET tableName == peek(p)
  IN IF Len(tableName) = 0 THEN Fail(p, "at INSERT INTO: expected a table name to INSERT")
     ELSE Ok(SetStep(pop([p EXCEPT !.query.Tables = Append(@, tableName)]),
                     "stepInsertFieldsOpeningParens"))

case_stepInsertFieldsOpeningParens(p) ==
  LET openingParens == peek(p)
  IN IF Len(openingParens) # 1 \/ openingParens # LP
     THEN Fail(p, "at INSERT INTO: expected opening parens '('")
     ELSE Ok(SetStep(pop(p), "stepInsertFields"))

case_stepInsertFields(p) ==
  LET field == peek(p)
  IN IF ~isIdentifier(field) THEN Fail(p, "at INSERT INTO: expected at least one field to INSERT")
     ELSE Ok(SetStep(pop([p EXCEPT !.query.Fields = Append(@, field)]),
                     "stepInsertFieldsCommaOrClosingParens"))

case_stepInsertFieldsCommaOrClosingParens(p) ==
  LET commaOrClosingParens == peek(p)
  IN IF commaOrClosingParens # COMMA /\ commaOrClosingParens # RP
     THEN Fail(p, "at INSERT INTO: expected comma or closing parens")
     ELSE IF commaOrClosingParens = COMMA THEN Ok(SetStep(pop(p), "stepInsertFields"))
     ELSE Ok(SetStep(pop(p), "stepInsertValue"))

case_stepInsertValue(p) ==
  IF ToUpper(peek(p)) # W_VALUES THEN Fail(p, "at INSERT INTO: expected VALUES")
  ELSE Ok(SetStep(pop(p), "stepInsertValuesOpeningParens"))

case_stepInsertValuesOpeningParens(p) ==
  IF peek(p) # LP THEN Fail(p, "at INSERT INTO: expected opening parens")
  ELSE Ok(SetStep(pop([p EXCEPT !.query.Inserts = Append(@, <<>>)]), "stepInsertValues"))

case_stepInsertValues(p) ==
  LET value == peek(p)
      n == Len(p.query.Inserts)
  IN Ok(SetStep(pop([p EXCEPT !.query.Inserts[n] = Append(@, value)]),
                "stepInsertValuesCommaOrClosingParens"))

\* the eager arity check made when a value tuple is closed
InsertRowTooShort(row, fields) == Len(row) < Len(fields)

case_stepInsertValuesCommaOrClosingParens(p) ==
  LET commaOrClosingParens == peek(p)
      p1 == pop(p)
      currentInsertRow == p1.query.Inserts[Len(p1.query.Inserts)]
  IN IF commaOrClosingParens # COMMA /\ commaOrClosingParens # RP
     THEN Fail(p, "at INSERT INTO: expected comma or closing parens")
     ELSE IF commaOrClosingParens = COMMA THEN Ok(SetStep(p1, "stepInsertValues"))
     ELSE IF InsertRowTooShort(currentInsertRow, p1.query.Fields)
     THEN Fail(p1, "at INSERT INTO: value count doesn't match field count")
     ELSE Ok(SetStep(p1, "stepInsertValue"))

case_stepUpdateTable(p) ==
  LET tableName == peek(p)
  IN IF Len(tableName) = 0 THEN Fail(p, "at UPDATE: expected a table name to UPDATE")
     ELSE Ok(SetStep(pop([p EXCEPT !.query.Tables = Append(@, tableName)]), "stepUpdateSet"))

case_stepUpdateSet(p) ==
  IF peek(p) # W_SET THEN Fail(p, "at UPDATE: expected SET")
  ELSE Ok(SetStep(pop(p), "stepUpdateField"))

case_stepUpdateField(p) ==
  LET field == peek(p)
  IN IF ~isIdentifier(field) THEN Fail(p, "at UPDATE: expected at least one field to update")
     ELSE Ok(SetStep(pop([p EXCEPT !.nextUpdateField = field]), "stepUpdateEqual"))

case_stepUpdateEqual(p) ==
  IF peek(p) # EQ THEN Fail(p, "at UPDATE: expected equal '='")
  ELSE Ok(SetStep(pop(p), "stepUpdateValue"))

\* m[key] = value on a Go map
MapSet(m, key, value) ==
  [k \in (DOMAIN m) \cup {key} |-> IF k = key THEN value ELSE m[k]]

case_stepUpdateValue(p) ==
  LET value == peek(p)
      p1 == pop([p EXCEPT !.query.Updates = MapSet(@, p.nextUpdateField, value),
                          !.nextUpdateField = <<>>])
  IN IF ToUpper(peek(p1)) = W_WHERE THEN Ok(SetStep(p1, "stepWhere"))
     ELSE Ok(SetStep(p1, "stepUpdateComma"))

case_stepUpdateComma(p) ==
  IF peek(p) # COMMA THEN Fail(p, "at UPDATE: expected comma ','")
  ELSE Ok(SetStep(pop(p), "stepUpdateField"))

case_stepDeleteFromTable(p) ==
  LET tableName == peek(p)
      p1 == pop([p EXCEPT !.query.Tables = Append(@, tableName)])
  IN IF Len(tableName) = 0
     THEN Fail(p, "at DELETE FROM: expected a table name to DELETE FROM")
     ELSE IF peek(p1) = W_WHERE THEN Ok(SetStep(p1, "stepWhere"))
     ELSE Ok(p1)

case_stepWhere(p) ==
  IF ToUpper(peek(p)) # W_WHERE THEN Fail(p, "expected WHERE")
  ELSE Ok(SetStep(pop(p), "stepWhereField"))

case_stepWhereField(p) ==
  LET field == peek(p)
  IN IF ~isIdentifier(field) THEN Fail(p, "at WHERE: expected field")
     ELSE Ok(SetStep(pop([p EXCEPT !.query.Conditions = Append(@, NewCondition(field))]),
                     "stepWhereOperator"))

\* the Operator a token of stepWhereOperator stands for
WhereOperatorOf(operator) ==
  CASE operator = EQ -> "Eq"
    [] operator = GT -> "Gt"
    [] operator = GE -> "Gte"
    [] operator = LT -> "Lt"
    [] operator = LE -> "Lte"
    [] operator = NE -> "Ne"
    [] operator = W_LIKE -> "Like"
    [] operator = W_NOT_LIKE -> "NotLike"
    [] operator = W_IN -> "In"
    [] operator = W_NOT_IN -> "NotIn"
    [] operator = W_BETWEEN -> "Between"
    [] operator = W_NOT_BETWEEN -> "NotBetween"
    [] OTHER -> "UnknownOperator"

\* the state stepWhereOperator moves to without popping, "" when it pops
WhereOperatorStep(operator) ==
  CASE operator = W_IN -> "stepWhereIn"
    [] operator = W_NOT_IN -> "stepWhereNotIn"
    [] operator = W_BETWEEN -> "stepWhereBetween"
    [] operator = W_NOT_BETWEEN -> "stepWhereNotBetween"
    [] OTHER -> ""

case_stepWhereOperator(p) ==
  LET operator == peek(p)
      n == Len(p.query.Conditions)
      op == WhereOperatorOf(operator)
      p1 == [p EXCEPT !.query.Conditions[n].Operator = op]
  IN IF op = "UnknownOperator" THEN Fail(p, "at WHERE: unknown operator")
     ELSE IF WhereOperatorStep(operator) # "" THEN Ok(SetStep(p1, WhereOperatorStep(operator)))
     ELSE Ok(SetStep(pop(p1), "stepWhereValue"))

\* the state stepWhereValue moves to on the token after the value; the
\* switch has no default, so any other token leaves the state as it is
WhereValueNext(nextIdentifier) ==
  CASE ToUpper(nextIdentifier) = W_AND -> "stepWhereAnd"
    [] ToUpper(nextIdentifier) = W_OR -> "stepWhereOr"
    [] ToUpper(nextIdentifier) = W_IN -> "stepWhereIn"
    [] ToUpper(nextIdentifier) = W_NOT_IN -> "stepWhereNotIn"
    [] ToUpper(nextIdentifier) = W_BETWEEN -> "stepWhereBetween"
    [] OTHER -> "stepWhereValue"

case_stepWhereValue(p) ==
  LET whereValue == peek(p)
      n == Len(p.query.Conditions)
      p1 == pop([p EXCEPT !.query.Conditions[n].Operand2 = whereValue,
                          !.query.Conditions[n].Operand2IsField = FALSE])
  IN Ok(SetStep(p1, WhereValueNext(peek(p1))))

case_stepWhereAnd(p) ==
  IF ToUpper(peek(p)) # W_AND THEN Fail(p, "expected AND")
  ELSE Ok(SetStep(pop([p EXCEPT !.query.ConditionOperators = Append(@, "And")]),
                  "stepWhereField"))

case_stepWhereOr(p) ==
  IF ToUpper(peek(p)) # W_OR THEN Fail(p, "expected OR")
  ELSE Ok(SetStep(pop([p EXCEPT !.query.ConditionOperators = Append(@, "Or")]),
                  "stepWhereField"))

case_stepWhereIn(p) ==
  LET n == Len(p.query.Conditions)
  IN IF ToUpper(peek(p)) # W_IN THEN Fail(p, "at WHERE: expected IN")
     ELSE Ok(SetStep(pop([p EXCEPT !.query.Conditions[n].IsIn = TRUE]),
                     "stepWhereInOpeningParens"))

case_stepWhereNotIn(p) ==
  LET n == Len(p.query.Conditions)
  IN IF ToUpper(peek(p)) # W_NOT_IN THEN Fail(p, "at WHERE: expected NOT IN")
     ELSE Ok(SetStep(pop([p EXCEPT !.query.Conditions[n].IsNotIn = TRUE]),
                     "stepWhereInOpeningParens"))

case_stepWhereInOpeningParens(p) ==
  IF peek(p) # LP THEN Fail(p, "at WHERE: expected opening parens '('")
  ELSE Ok(SetStep(pop(p), "stepWhereInValue"))

case_stepWhereInValue(p) ==
  LET value == peek(p)
      n == Len(p.query.Conditions)
  IN Ok(SetStep(pop([p EXCEPT !.query.Conditions[n].InConditions = Append(@, value)]),
                "stepWhereInCommaOrClosingParens"))

case_stepWhereInCommaOrClosingParens(p) ==
  LET commaOrClosingParens == peek(p)
  IN IF commaOrClosingParens # COMMA /\ commaOrClosingParens # RP
     THEN Fail(p, "at CHECK: expected comma ',' or closing parens ')'")
     ELSE IF commaOrClosingParens = COMMA THEN Ok(pop(SetStep(p, "stepWhereInValue")))
     ELSE Ok(pop(SetStep(p, "stepWhere")))

case_stepWhereBetween(p) ==
  IF peek(p) # W_BETWEEN THEN Fail(p, "expected BETWEEN")
  ELSE Ok(SetStep(pop(p), "stepWhereBetweenValue"))

case_stepWhereNotBetween(p) ==
  LET n == Len(p.query.Conditions)
  IN IF peek(p) # W_NOT_BETWEEN THEN Fail(p, "expected NOT BETWEEN")
     ELSE Ok(SetStep(pop([p EXCEPT !.query.Conditions[n].IsNotBetween = TRUE]),
                     "stepWhereBetweenValue"))

\* the condition after stepWhereBetweenValue has read the first bound
BetweenValueCondition(c, value) ==
  [c EXCEPT !.Operand1 = value, !.Operand1IsField = FALSE]

case_stepWhereBetweenValue(p) ==
  LET value == peek(p)
      n == Len(p.query.Conditions)
  IN Ok(SetStep(pop([p EXCEPT !.query.Conditions[n] = BetweenValueCondition(@, value)]),
                "stepWhereBetweenAnd"))

case_stepWhereBetweenAnd(p) ==
  IF peek(p) # W_AND THEN Fail(p, "expected AND")
  ELSE Ok(SetStep(pop(p), "stepWhereBetweenAndValue"))

case_stepWhereBetweenAndValue(p) ==
  LET value == peek(p)
      n == Len(p.query.Conditions)
  IN Ok(SetStep(pop([p EXCEPT !.query.Conditions[n].Operand2 = value,
                              !.query.Conditions[n].Operand2IsField = FALSE]),
                "stepWhere"))

case_stepCreateViewName(p) ==
  LET name == peek(p)
  IN IF ~isIdentifierOrAsterisk(name) THEN Fail(p, "at CREATE VIEW: expected view name to CREATE")
     ELSE Ok(SetStep(pop([p EXCEPT !.query.Tables = Append(@, name)]),
                     "stepCreateViewOpeningParens"))

case_stepCreateViewOpeningParens(p) ==
  IF peek(p) # LP THEN Fail(p, "at CREATE VIEW: expected opening parens '('")
  ELSE Ok(SetStep(pop(p), "stepCreateViewField"))

case_stepCreateViewField(p) ==
  LET field == peek(p)
  IN IF ~isIdentifierOrAsterisk(field) THEN Fail(p, "at CREATE VIEW: expected field name to CREATE")
     ELSE Ok(SetStep(pop([p EXCEPT !.query.Fields = Append(@, field)]),
                     "stepCreateViewCommaOrClosingParens"))

case_stepCreateViewCommaOrClosingParens(p) ==
  LET commaOrClosingParens == peek(p)
  IN IF commaOrClosingParens # COMMA /\ commaOrClosingParens # RP
     THEN Fail(p, "at CREATE VIEW: expected comma ',' or closing parens ')'")
     ELSE IF commaOrClosingParens = COMMA THEN Ok(SetStep(pop(p), "stepCreateViewField"))
     ELSE Ok(SetStep(pop(p), "stepCreateViewAs"))

case_stepCreateViewAs(p) ==
  IF ToUpper(peek(p)) # W_AS THEN Fail(p, "at CREATE VIEW: expected AS")
  ELSE Ok(SetStep(pop(p), "stepCreateViewSelect"))

case_stepCreateViewSelect(p) ==
  Ok(SetStep(popToEnd([p EXCEPT !.query.ViewSelect = peekToEnd(p)]), "stepCreateViewName"))

case_stepCreateTableName(p) ==
  LET tableName == peek(p)
  IN IF ~isIdentifierOrAsterisk(tableName)
     THEN Fail(p, "at CREATE TABLE: expected a legal table name to CREATE")
     ELSE Ok(SetStep(pop([p EXCEPT !.query.Tables = Append(@, tableName)]),
                     "stepCreateTableOpeningParens"))

case_stepCreateTableOpeningParens(p) ==
  LET openingParens == peek(p)
  IN IF Len(openingParens) # 1 \/ openingParens # LP
     THEN Fail(p, "at CREATE TABLE: expected opening parens: '('")
     ELSE Ok(SetStep(pop(p), "stepCreateTableField"))

case_stepCreateTableField(p) ==
  LET fieldName == peek(p)
  IN IF ~isIdentifierOrAsterisk(fieldName) THEN Fail(p, "at CREATE TABLE: field name is illegal")
     ELSE Ok(SetStep(pop([p EXCEPT !.query.CreateFields = Append(@, NewField(fieldName))]),
                     "stepCreateTableFieldType"))

\* a type switch on the name as it was written
DataTypeOf_asWritten(fieldType) ==
  CASE fieldType = W_SMALLINT -> "SmallInt"
    [] fieldType = W_DOUBLE -> "Double"
    [] fieldType = W_VARCHAR -> "Varchar"
    [] fieldType = W_DATETIME -> "DateTime"
    [] OTHER -> "UnknownDataType"

DataTypeOf(fieldType) ==
  CASE ToUpper(fieldType) = W_SMALLINT -> "SmallInt"
    [] ToUpper(fieldType) = W_DOUBLE -> "Double"
    [] ToUpper(fieldType) = W_VARCHAR -> "Varchar"
    [] ToUpper(fieldType) = W_DATETIME -> "DateTime"
    [] OTHER -> "UnknownDataType"

case_stepCreateTableFieldType(p) ==
  LET fieldType == peek(p)
      n == Len(p.query.CreateFields)
      p1 == [p EXCEPT !.query.CreateFields[n].DataType = DataTypeOf(fieldType)]
      p2 == pop(p1)
      nextIdentifier == peek(p2)
  IN IF DataTypeOf(fieldType) = "UnknownDataType"
     THEN Fail(p1, "at CREATE TABLE: unknown data type")
     ELSE IF nextIdentifier = LP THEN Ok(SetStep(p2, "stepCreateTableFieldOpeningParens"))
     ELSE IF nextIdentifier = COMMA THEN Ok(SetStep(p2, "stepCreateTableComma"))
     ELSE Ok(SetStep(p2, "stepCreateTableConstraintType"))

case_stepCreateTableFieldOpeningParens(p) ==
  IF peek(p) # LP THEN Fail(p, "at CREATE TABLE: expected opening parens: '('")
  ELSE Ok(SetStep(pop(p), "stepCreateTableFieldLength"))

DigitValue(c) ==
  CASE c = "0" -> 0 [] c = "1" -> 1 [] c = "2" -> 2 [] c = "3" -> 3 [] c = "4" -> 4
    [] c = "5" -> 5 [] c = "6" -> 6 [] c = "7" -> 7 [] c = "8" -> 8 [] c = "9" -> 9

RECURSIVE DigitsValue(_)
DigitsValue(s) ==
  IF s = <<>> THEN 0 ELSE DigitsValue(SubSeq(s, 1, Len(s) - 1)) * 10 + DigitValue(s[Len(s)])

\* strconv.ParseInt(s, 10, 64): an optional sign and one or more decimal
\* digits.  The literals of the model are short, so the int64 range error
\* of the code does not arise.
ParseIntDigits(s) ==
  IF s # <<>> /\ s[1] \in {"+", "-"} THEN Tail(s) ELSE s

ParseIntOk(s) ==
  /\ ParseIntDigits(s) # <<>>
  /\ \A i \in 1..Len(ParseIntDigits(s)) : ParseIntDigits(s)[i] \in Digits

ParseIntValue(s) ==
  IF s[1] = "-" THEN 0 - DigitsValue(ParseIntDigits(s)) ELSE DigitsValue(ParseIntDigits(s))

case_stepCreateTableFieldLength(p) ==
  LET fieldLength == peek(p)
      n == Len(p.query.CreateFields)
  IN IF ~ParseIntOk(fieldLength)
     THEN Fail(p, "at CREATE TABLE: field length is not an integer")
     ELSE Ok(SetStep(pop([p EXCEPT !.query.CreateFields[n].DataLength = ParseIntValue(fieldLength)]),
                     "stepCreateTableFieldClosingParens"))

case_stepCreateTableFieldClosingParens(p) ==
  LET p1 == pop(p)
      next == ToUpper(peek(p1))
  IN IF peek(p) # RP THEN Fail(p, "at CREATE TABLE: expected closing parens: ')'")
     ELSE IF next = COMMA THEN Ok(SetStep(p1, "stepCreateTableComma"))
     ELSE IF next = RP THEN Ok(SetStep(p1, "stepCreateTableClosingParens"))
     ELSE Ok(SetStep(p1, "stepCreateTableConstraintType"))

\* the column after the first switch of stepCreateTableConstraintType
ConstraintField(f, constraintType) ==
  CASE ToUpper(constraintType) = W_NOT_NULL ->
         [f EXCEPT !.Constraint = Append(@, "NotNull"), !.NotNull = TRUE]
    [] ToUpper(constraintType) = W_UNIQUE ->
         [f EXCEPT !.Constraint = Append(@, "Unique"), !.Unique = TRUE]
    [] ToUpper(constraintType) = W_PRIMARY_KEY ->
         [f EXCEPT !.Constraint = Append(@, "PrimaryKey")]
    [] ToUpper(constraintType) = W_CHECK -> f
    [] ToUpper(constraintType) = W_DEFAULT ->
         [f EXCEPT !.Constraint = Append(@, "Default")]
    [] OTHER -> [f EXCEPT !.Constraint = Append(@, "UnknownConstraint")]

KnownConstraint(constraintType) ==
  ToUpper(constraintType) \in {W_NOT_NULL, W_UNIQUE, W_PRIMARY_KEY, W_CHECK, W_DEFAULT}

case_stepCreateTableConstraintType(p) ==
  LET constraintType == peek(p)
      n == Len(p.query.CreateFields)
      p1 == [p EXCEPT !.query.CreateFields[n] = ConstraintField(@, constraintType)]
      p2 == pop(p1)
      nextIdentifier == peek(p2)
  IN IF ~KnownConstraint(constraintType)
     THEN Fail(p1, "at CREATE TABLE: unknown constraint type")
     ELSE IF ToUpper(constraintType) = W_CHECK
     THEN Ok(SetStep([p1 EXCEPT !.query.CreateFields[n].Constraint = Append(@, "Check")],
                     "stepCheck"))
     ELSE IF nextIdentifier = COMMA THEN Ok(SetStep(p2, "stepCreateTableComma"))
     ELSE IF nextIdentifier = RP THEN Ok(SetStep(p2, "stepCreateTableClosingParens"))
     ELSE Fail(p2, "at CREATE TABLE: unexpected token")

case_stepCheck(p) ==
  IF ToUpper(peek(p)) # W_CHECK THEN Fail(p, "excepted CHECK")
  ELSE Ok(SetStep(pop(p), "stepCheckOpeningParens"))

case_stepCheckOpeningParens(p) ==
  IF peek(p) # LP THEN Fail(p, "at CREATE TABLE: expected opening parens: '('")
  ELSE Ok(SetStep(pop(p), "stepCheckField"))

case_stepCheckField(p) ==
  LET field == peek(p)
      n == Len(p.query.CreateFields)
  IN Ok(SetStep(pop([p EXCEPT !.query.CreateFields[n].CheckConditions =
                                  Append(@, NewCondition(field))]),
                "stepCheckOperator"))

\* the Operator a token of stepCheckOperator stands for
CheckOperatorOf(operator) ==
  CASE operator = EQ -> "Eq"
    [] operator = GT -> "Gt"
    [] operator = GE -> "Gte"
    [] operator = LT -> "Lt"
    [] operator = LE -> "Lte"
    [] operator = NE -> "Ne"
    [] ToUpper(operator) = W_LIKE -> "Like"
    [] ToUpper(operator) = W_NOT_LIKE -> "NotLike"
    [] ToUpper(operator) = W_IN -> "In"
    [] OTHER -> "UnknownOperator"

case_stepCheckOperator(p) ==
  LET operator == peek(p)
      n == Len(p.query.CreateFields)
      m == Len(p.query.CreateFields[n].CheckConditions)
      p1 == [p EXCEPT !.query.CreateFields[n].CheckConditions[m].Operator =
                         CheckOperatorOf(operator)]
  IN IF CheckOperatorOf(operator) = "UnknownOperator" THEN Fail(p1, "at CHECK: unknown operator")
     ELSE IF ToUpper(operator) # W_IN THEN Ok(pop(SetStep(p1, "stepCheckValue")))
     ELSE Ok(SetStep(p1, "stepCheckIn"))

case_stepCheckValue(p) ==
  LET checkValue == peek(p)
      n == Len(p.query.CreateFields)
      m == Len(p.query.CreateFields[n].CheckConditions)
      p1 == pop([p EXCEPT !.query.CreateFields[n].CheckConditions[m].Operand2 = checkValue,
                          !.query.CreateFields[n].CheckConditions[m].Operand2IsField = FALSE])
      next == ToUpper(peek(p1))
  IN IF next = RP THEN Ok(SetStep(p1, "stepCheckClosingParens"))
     ELSE IF next = W_AND THEN Ok(SetStep(p1, "stepCheckAnd"))
     ELSE IF next = W_OR THEN Ok(SetStep(p1, "stepCheckOr"))
     ELSE Fail(p1, "at CHECK: unexpected token")

case_stepCheckIn(p) ==
  LET n == Len(p.query.CreateFields)
      m == Len(p.query.CreateFields[n].CheckConditions)
  IN IF ToUpper(peek(p)) # W_IN THEN Fail(p, "at CHECK: expected IN")
     ELSE Ok(SetStep(pop([p EXCEPT !.query.CreateFields[n].CheckConditions[m].Operator = "In"]),
                     "stepCheckInOpeningParens"))

case_stepCheckInOpeningParens(p) ==
  IF peek(p) # LP THEN Fail(p, "at CHECK: expected opening parens '('")
  ELSE Ok(SetStep(pop(p), "stepCheckInValue"))

case_stepCheckInValue(p) ==
  LET value == peek(p)
      n == Len(p.query.CreateFields)
      m == Len(p.query.CreateFields[n].CheckConditions)
  IN Ok(SetStep(pop([p EXCEPT !.query.CreateFields[n].CheckConditions[m].IsIn = TRUE,
                              !.query.CreateFields[n].CheckConditions[m].InConditions =
                                  Append(@, value)]),
                "stepCheckInCommaOrClosingParens"))

case_stepCheckInCommaOrClosingParens(p) ==
  LET commaOrClosingParens == peek(p)
  IN IF commaOrClosingParens # COMMA /\ commaOrClosingParens # RP
     THEN Fail(p, "at CHECK: expected comma ',' or closing parens ')'")
     ELSE IF commaOrClosingParens = COMMA THEN Ok(pop(SetStep(p, "stepCheckInValue")))
     ELSE Ok(pop(SetStep(p, "stepCheckClosingParens")))

case_stepCheckClosingParens(p) ==
  LET p1 == pop(p)
  IN IF peek(p) # RP THEN Fail(p, "at CHECK: expected closing parens ')'")
     ELSE IF peek(p1) = COMMA THEN Ok(SetStep(p1, "stepCreateTableComma"))
     ELSE Ok(SetStep(p1, "stepCreateTableClosingParens"))

case_stepCheckAnd(p) ==
  LET n == Len(p.query.CreateFields)
  IN IF ToUpper(peek(p)) # W_AND THEN Fail(p, "at CHECK: expected AND")
     ELSE Ok(SetStep(pop([p EXCEPT !.query.CreateFields[n].CheckConditionsOperator =
                                       Append(@, "And")]),
                     "stepCheckField"))

case_stepCheckOr(p) ==
  LET n == Len(p.query.CreateFields)
  IN IF ToUpper(peek(p)) # W_OR THEN Fail(p, "at CHECK: expected OR")
     ELSE Ok(SetStep(pop([p EXCEPT !.query.CreateFields[n].CheckConditionsOperator =
                                       Append(@, "Or")]),
                     "stepCheckField"))

case_stepCreateTableClosingParens(p) ==
  IF peek(p) # RP THEN Fail(p, "at CREATE TABLE: expected closing parens: ')'")
  ELSE Ok(SetStep(pop(p), "stepCreateTableField"))

case_stepCreateTableComma(p) ==
  LET p1 == pop(p)
      next == ToUpper(peek(p1))
  IN IF peek(p) # COMMA THEN Fail(p, "at CREATE TABLE: expected comma: ','")
     ELSE IF next = RP THEN Ok(SetStep(p1, "stepCreateTableClosingParens"))
     ELSE IF next = W_PRIMARY_KEY THEN Ok(SetStep(p1, "stepPrimaryKey"))
     ELSE IF next = W_FOREIGN_KEY THEN Ok(SetStep(p1, "stepForeignKey"))
     ELSE IF next = W_CHECK THEN Ok(SetStep(p1, "stepCheck"))
     ELSE Ok(SetStep(p1, "stepCreateTableField"))

case_stepPrimaryKey(p) ==
  IF ToUpper(peek(p)) # W_PRIMARY_KEY THEN Fail(p, "at CREATE TABLE: expected PRIMARY KEY")
  ELSE Ok(SetStep(pop(p), "stepPrimaryKeyOpeningParens"))

case_stepPrimaryKeyOpeningParens(p) ==
  IF peek(p) # LP THEN Fail(p, "at CHECK: expected opening parens '('")
  ELSE Ok(SetStep(pop(p), "stepPrimaryKeyField"))

\* the indexes of the columns named fieldName
FieldsNamed(fields, fieldName) == {i \in 1..Len(fields) : fields[i].Name = fieldName}

\* a lookup that stops at the first match
LastOf_first(S) == MinOf(S)

\* the index the range loop leaves in i: the last match
LastOf(S) == CHOOSE x \in S : \A y \in S : y <= x

case_stepPrimaryKeyField(p) ==
  LET fieldName == peek(p)
      found == FieldsNamed(p.query.CreateFields, fieldName)
      i == LastOf(found)
  IN IF found = {} THEN Fail(p, "at CREATE TABLE: unknown field")
     ELSE Ok(SetStep(pop([p EXCEPT !.query.CreateFields[i].Constraint = Append(@, "PrimaryKey"),
                                   !.query.CreateFields[i].PrimaryKey = TRUE]),
                     "stepPrimaryKeyCommaOrClosingParens"))

case_stepPrimaryKeyCommaOrClosingParens(p) ==
  LET commaOrClosingParens == peek(p)
      p1 == pop(p)
  IN IF commaOrClosingParens # COMMA /\ commaOrClosingParens # RP
     THEN Fail(p, "at CREATE TABLE: expected comma ',' or closing parens ')'")
     ELSE IF commaOrClosingParens = COMMA THEN Ok(SetStep(p1, "stepPrimaryKeyField"))
     ELSE IF peek(p1) = COMMA THEN Ok(SetStep(p1, "stepCreateTableComma"))
     ELSE Ok(SetStep(p1, "stepCreateTableClosingParens"))

case_stepForeignKey(p) ==
  IF ToUpper(peek(p)) # W_FOREIGN_KEY THEN Fail(p, "at CREATE TABLE: expected FOREIGN KEY")
  ELSE Ok(SetStep(pop(p), "stepForeignKeyOpeningParens"))

case_stepForeignKeyOpeningParens(p) ==
  IF peek(p) # LP THEN Fail(p, "at CREATE TABLE: expected opening parens '('")
  ELSE Ok(SetStep(pop(p), "stepForeignKeyField"))

case_stepForeignKeyField(p) ==
  LET fieldName == peek(p)
      found == FieldsNamed(p.query.CreateFields, fieldName)
      i == LastOf(found)
  IN IF found = {} THEN Fail(p, "at CREATE TABLE: unknown field")
     ELSE Ok(SetStep(pop([p EXCEPT !.query.CreateFields[i].Constraint = Append(@, "ForeignKey"),
                                   !.query.CreateFields[i].ForeignKey = TRUE,
                                   !.query.CreateFields[i].ForeignKeyFlag = TRUE]),
                     "stepForeignKeyClosingParens"))

case_stepForeignKeyClosingParens(p) ==
  IF peek(p) # RP THEN Fail(p, "at CREATE TABLE: expected closing parens ')'")
  ELSE Ok(SetStep(pop(p), "stepForeignKeyReference"))

case_stepForeignKeyReference(p) ==
  IF ToUpper(peek(p)) # W_REFERENCES THEN Fail(p, "at CREATE TABLE: expected REFERENCES")
  ELSE Ok(SetStep(pop(p), "stepForeignKeyReferenceTable"))

\* a REFERENCES state that always writes to the first column
ForeignKeyFlagIndex_first(fields) == MinOf(DOMAIN fields)

\* the column the REFERENCES states write to: the last one whose
\* ForeignKeyFlag is set, the first column when none is
ForeignKeyFlagIndex(fields) ==
  LET flagged == {i \in 1..Len(fields) : fields[i].ForeignKeyFlag}
  IN IF flagged = {} THEN 1 ELSE LastOf(flagged)

case_stepForeignKeyReferenceTable(p) ==
  LET tableName == peek(p)
      i == ForeignKeyFlagIndex(p.query.CreateFields)
  IN Ok(SetStep(pop([p EXCEPT !.query.CreateFields[i].ForeignKeyReferenceTable = tableName]),
                "stepForeignKeyReferenceFieldOpeningParens"))

case_stepForeignKeyReferenceFieldOpeningParens(p) ==
  IF peek(p) # LP THEN Fail(p, "at FOREIGN KEY: expected opening parens '('")
  ELSE Ok(SetStep(pop(p), "stepForeignKeyReferenceField"))

case_stepForeignKeyReferenceField(p) ==
  LET fieldName == peek(p)
      i == ForeignKeyFlagIndex(p.query.CreateFields)
  IN Ok(SetStep(pop([p EXCEPT !.query.CreateFields[i].ForeignKeyReferenceField = fieldName,
                              !.query.CreateFields[i].ForeignKeyFlag = FALSE]),
                "stepForeignKeyReferenceFieldClosingParens"))

case_stepForeignKeyReferenceFieldClosingParens(p) ==
  LET p1 == pop(p)
      nextIdentifier == peek(p1)
  IN IF peek(p) # RP THEN Fail(p, "at CREATE TABLE: expected closing parens ')'")
     ELSE IF nextIdentifier = COMMA THEN Ok(SetStep(p1, "stepCreateTableComma"))
     ELSE IF nextIdentifier = RP THEN Ok(SetStep(p1, "stepCreateTableClosingParens"))
     ELSE Fail(p1, "at CREATE TABLE: unexpected token")

\* the states stepBeginning enters that the switch of doParse has no case for
StepsWithoutCase ==
  {"stepCreateIndexName", "stepCreateUserName", "stepGrantPrivilege", "stepRevokePrivilege"}

\* an iteration in a state without a case: the switch does nothing
case_none(p) == Ok(p)

\* the switch of doParse on p.step
switchStep(p) ==
  CASE p.step = "stepBeginning" -> case_stepBeginning(p)
    [] p.step = "stepSelectField" -> case_stepSelectField(p)
    [] p.step = "stepSelectComma" -> case_stepSelectComma(p)
    [] p.step = "stepSelectFrom" -> case_stepSelectFrom(p)
    [] p.step = "stepSelectFromTable" -> case_stepSelectFromTable(p)
    [] p.step = "stepSelectFromTableComma" -> case_stepSelectFromTableComma(p)
    [] p.step = "stepInsertTable" -> case_stepInsertTable(p)
    [] p.step = "stepInsertFieldsOpeningParens" -> case_stepInsertFieldsOpeningParens(p)
    [] p.step = "stepInsertFields" -> case_stepInsertFields(p)
    [] p.step = "stepInsertFieldsCommaOrClosingParens" -> case_stepInsertFieldsCommaOrClosingParens(p)
    [] p.step = "stepInsertValue" -> case_stepInsertValue(p)
    [] p.step = "stepInsertValuesOpeningParens" -> case_stepInsertValuesOpeningParens(p)
    [] p.step = "stepInsertValues" -> case_stepInsertValues(p)
    [] p.step = "stepInsertValuesCommaOrClosingParens" -> case_stepInsertValuesCommaOrClosingParens(p)
    [] p.step = "stepUpdateTable" -> case_stepUpdateTable(p)
    [] p.step = "stepUpdateSet" -> case_stepUpdateSet(p)
    [] p.step = "stepUpdateField" -> case_stepUpdateField(p)
    [] p.step = "stepUpdateEqual" -> case_stepUpdateEqual(p)
    [] p.step = "stepUpdateValue" -> case_stepUpdateValue(p)
    [] p.step = "stepUpdateComma" -> case_stepUpdateComma(p)
    [] p.step = "stepDeleteFromTable" -> case_stepDeleteFromTable(p)
    [] p.step = "stepWhere" -> case_stepWhere(p)
    [] p.step = "stepWhereField" -> case_stepWhereField(p)
    [] p.step = "stepWhereOperator" -> case_stepWhereOperator(p)
    [] p.step = "stepWhereValue" -> case_stepWhereValue(p)
    [] p.step = "stepWhereAnd" -> case_stepWhereAnd(p)
    [] p.step = "stepWhereOr" -> case_stepWhereOr(p)
    [] p.step = "stepWhereIn" -> case_stepWhereIn(p)
    [] p.step = "stepWhereNotIn" -> case_stepWhereNotIn(p)
    [] p.step = "stepWhereInOpeningParens" -> case_stepWhereInOpeningParens(p)
    [] p.step = "stepWhereInValue" -> case_stepWhereInValue(p)
    [] p.step = "stepWhereInCommaOrClosingParens" -> case_stepWhereInCommaOrClosingParens(p)
    [] p.step = "stepWhereBetween" -> case_stepWhereBetween(p)
    [] p.step = "stepWhereNotBetween" -> case_stepWhereNotBetween(p)
    [] p.step = "stepWhereBetweenValue" -> case_stepWhereBetweenValue(p)
    [] p.step = "stepWhereBetweenAnd" -> case_stepWhereBetweenAnd(p)
    [] p.step = "stepWhereBetweenAndValue" -> case_stepWhereBetweenAndValue(p)
    [] p.step = "stepCreateViewName" -> case_stepCreateViewName(p)
    [] p.step = "stepCreateViewOpeningParens" -> case_stepCreateViewOpeningParens(p)
    [] p.step = "stepCreateViewField" -> case_stepCreateViewField(p)
    [] p.step = "stepCreateViewCommaOrClosingParens" -> case_stepCreateViewCommaOrClosingParens(p)
    [] p.step = "stepCreateViewAs" -> case_stepCreateViewAs(p)
    [] p.step = "stepCreateViewSelect" -> case_stepCreateViewSelect(p)
    [] p.step = "stepCreateTableName" -> case_stepCreateTableName(p)
    [] p.step = "stepCreateTableOpeningParens" -> case_stepCreateTableOpeningParens(p)
    [] p.step = "stepCreateTableField" -> case_stepCreateTableField(p)
    [] p.step = "stepCreateTableFieldType" -> case_stepCreateTableFieldType(p)
    [] p.step = "stepCreateTableFieldOpeningParens" -> case_stepCreateTableFieldOpeningParens(p)
    [] p.step = "stepCreateTableFieldLength" -> case_stepCreateTableFieldLength(p)
    [] p.step = "stepCreateTableFieldClosingParens" -> case_stepCreateTableFieldClosingParens(p)
    [] p.step = "stepCreateTableConstraintType" -> case_stepCreateTableConstraintType(p)
    [] p.step = "stepCheck" -> case_stepCheck(p)
    [] p.step = "stepCheckOpeningParens" -> case_stepCheckOpeningParens(p)
    [] p.step = "stepCheckField" -> case_stepCheckField(p)
    [] p.step = "stepCheckOperator" -> case_stepCheckOperator(p)
    [] p.step = "stepCheckValue" -> case_stepCheckValue(p)
    [] p.step = "stepCheckIn" -> case_stepCheckIn(p)
    [] p.step = "stepCheckInOpeningParens" -> case_stepCheckInOpeningParens(p)
    [] p.step = "stepCheckInValue" -> case_stepCheckInValue(p)
    [] p.step = "stepCheckInCommaOrClosingParens" -> case_stepCheckInCommaOrClosingParens(p)
    [] p.step = "stepCheckClosingParens" -> case_stepCheckClosingParens(p)
    [] p.step = "stepCheckAnd" -> case_stepCheckAnd(p)
    [] p.step = "stepCheckOr" -> case_stepCheckOr(p)
    [] p.step = "stepCreateTableClosingParens" -> case_stepCreateTableClosingParens(p)
    [] p.step = "stepCreateTableComma" -> case_stepCreateTableComma(p)
    [] p.step = "stepPrimaryKey" -> case_stepPrimaryKey(p)
    [] p.step = "stepPrimaryKeyOpeningParens" -> case_stepPrimaryKeyOpeningParens(p)
    [] p.step = "stepPrimaryKeyField" -> case_stepPrimaryKeyField(p)
    [] p.step = "stepPrimaryKeyCommaOrClosingParens" -> case_stepPrimaryKeyCommaOrClosingParens(p)
    [] p.step = "stepForeignKey" -> case_stepForeignKey(p)
    [] p.step = "stepForeignKeyOpeningParens" -> case_stepForeignKeyOpeningParens(p)
    [] p.step = "stepForeignKeyField" -> case_stepForeignKeyField(p)
    [] p.step = "stepForeignKeyClosingParens" -> case_stepForeignKeyClosingParens(p)
    [] p.step = "stepForeignKeyReference" -> case_stepForeignKeyReference(p)
    [] p.step = "stepForeignKeyReferenceTable" -> case_stepForeignKeyReferenceTable(p)
    [] p.step = "stepForeignKeyReferenceFieldOpeningParens" -> case_stepForeignKeyReferenceFieldOpeningParens(p)
    [] p.step = "stepForeignKeyReferenceField" -> case_stepForeignKeyReferenceField(p)
    [] p.step = "stepForeignKeyReferenceFieldClosingParens" -> case_stepForeignKeyReferenceFieldClosingParens(p)
    [] OTHER -> case_none(p)

RECURSIVE doParse(_)
\* doParse run to its return: the statement and the error it returns.  A
\* run that comes to an iteration that changes nothing never returns; it
\* is given the error "diverges".
doParse(p) ==
  IF p.position >= Len(p.sql) THEN [q |-> p.query, err |-> Nil]
  ELSE LET r == switchStep(p)
       IN IF r.err # Nil THEN [q |-> r.p.query, err |-> r.err]
          ELSE IF r.p = p THEN [q |-> p.query, err |-> "diverges"]
          ELSE doParse(r.p)

\* parse(sql): a new parser run to its return
parse(sql) == doParse(NewParser(sql))

-----------------------------------------------------------------------------
(* Input texts *)

\* the words of ws separated by single spaces
Words(ws) == JoinWith(ws, SP)

\* the quoted literal 's'
Quoted(s) == QUOTE \o s \o QUOTE

\* the non-empty sequences over S of length at most n
RECURSIVE ListsUpTo(_, _)
ListsUpTo(S, n) ==
  IF n = 0 THEN {}
  ELSE {<<x>> : x \in S} \cup {Append(l, x) : l \in ListsUpTo(S, n - 1), x \in S}

\* every prefix s[:n] of s, the empty one included
Prefixes(s) == {SubSeq(s, 1, n) : n \in 0..Len(s)}

\* "SELECT f1, ..., fn FROM t1, ..., tm"
SelectText(fs, ts) ==
  Words(<<W_SELECT, JoinWith(fs, <<",", " ">>), W_FROM, JoinWith(ts, <<",", " ">>)>>)

\* "INSERT INTO t (c1,...,cn) VALUES ('v1',...,'vm')"
InsertText(cs, vs) ==
  Words(<<W_INSERT_INTO, <<"t">>, LP \o JoinWith(cs, COMMA) \o RP, W_VALUES,
          LP \o JoinWith([i \in 1..Len(vs) |-> Quoted(vs[i])], COMMA) \o RP>>)

\* field names of the generated SELECT texts: the last begins with the word IN
FieldNames == {<<"a">>, <<"b">>, <<"i","n","f","o">>}

\* table names of the generated SELECT texts: the last begins with the word TO
TableNames == {<<"t">>, <<"u">>, <<"t","o","p">>}

ColumnNames == {<<"a">>, <<"b">>}

Literals == {<<"1">>, <<"2">>}

SelectTexts ==
  {SelectText(fs, ts) : fs \in ListsUpTo(FieldNames, MaxList), ts \in ListsUpTo(TableNames, MaxList)}

InsertTexts ==
  {InsertText(cs, vs) : cs \in ListsUpTo(ColumnNames, MaxList), vs \in ListsUpTo(Literals, MaxList)}

SelectWhere == Words(<<W_SELECT, <<"a">>, W_FROM, <<"t">>, W_WHERE>>)

\* "SELECT a, b FROM t"
SelectAB == Words(<<W_SELECT, <<"a", ",">>, <<"b">>, W_FROM, <<"t">>>>)

\* "SELECT a FROM t WHERE x BETWEEN '1' AND '10'"
SelectBetween ==
  Words(<<SelectWhere, <<"x">>, W_BETWEEN, Quoted(<<"1">>), W_AND, Quoted(<<"1","0">>)>>)

\* "UPDATE t SET a = '1'"
UpdateNoWhere == Words(<<W_UPDATE, <<"t">>, W_SET, <<"a">>, EQ, Quoted(<<"1">>)>>)

\* "DELETE FROM t"
DeleteNoWhere == Words(<<W_DELETE_FROM, <<"t">>>>)

\* "CREATE TABLE t (id SMALLINT PRIMARY KEY, name VARCHAR(20) NOT NULL)"
CreateTableIdName ==
  Words(<<W_CREATE_TABLE, <<"t">>, LP \o <<"i","d">>, W_SMALLINT, W_PRIMARY_KEY \o COMMA,
          <<"n","a","m","e">>, W_VARCHAR \o LP \o <<"2","0">> \o RP, W_NOT_NULL \o RP>>)

\* "CREATE INDEX i ON t (a ASC)"
CreateIndexText ==
  Words(<<W_CREATE_INDEX, <<"i">>, W_ON, <<"t">>, LP \o <<"a">>, <<"A","S","C">> \o RP>>)

\* "SELECT a FROM t WHERE x = '1';"
SelectWhereSemi == Words(<<SelectWhere, <<"x">>, EQ, Quoted(<<"1">>) \o SEMI>>)

\* "SELECT a FROM t WHERE x = '1' 'ab": a value, then a quote never closed
SelectWhereOpenQuote ==
  Words(<<SelectWhere, <<"x">>, EQ, Quoted(<<"1">>), QUOTE \o <<"a","b">>>>)

\* "SELECT a FROM t WHERE x IN ('1') AND y = 2"
SelectInAnd ==
  Words(<<SelectWhere, <<"x">>, W_IN, LP \o Quoted(<<"1">>) \o RP, W_AND, <<"y">>, EQ, <<"2">>>>)

\* "SELECT a FROM t WHERE x NOT IN ('1') AND y = 2"
SelectNotInAnd ==
  Words(<<SelectWhere, <<"x">>, W_NOT_IN, LP \o Quoted(<<"1">>) \o RP, W_AND, <<"y">>, EQ, <<"2">>>>)

\* "SELECT a FROM t WHERE x BETWEEN '1' AND '5' OR y = 2"
SelectBetweenOr ==
  Words(<<SelectWhere, <<"x">>, W_BETWEEN, Quoted(<<"1">>), W_AND, Quoted(<<"5">>), W_OR,
          <<"y">>, EQ, <<"2">>>>)

\* "SELECT a FROM t WHERE x IN ('1') WHERE y = 2"
SelectInWhere ==
  Words(<<SelectWhere, <<"x">>, W_IN, LP \o Quoted(<<"1">>) \o RP, W_WHERE, <<"y">>, EQ, <<"2">>>>)

\* "INSERT INTO t (a) VALUES ('1'), ('2')"
InsertTwoTuples ==
  Words(<<W_INSERT_INTO, <<"t">>, LP \o <<"a">> \o RP, W_VALUES,
          LP \o Quoted(<<"1">>) \o RP \o COMMA, LP \o Quoted(<<"2">>) \o RP>>)

\* "CREATE VIEW v AS SELECT a FROM t"
CreateViewNoColumns == Words(<<W_CREATE_VIEW, <<"v">>, W_AS, W_SELECT, <<"a">>, W_FROM, <<"t">>>>)

\* "CREATE VIEW v (a, b) AS"
CreateViewHead == Words(<<W_CREATE_VIEW, <<"v">>, LP \o <<"a", ",">>, <<"b">> \o RP, W_AS>>)

\* "DELETE FROM t"
ViewBodyDelete == Words(<<W_DELETE_FROM, <<"t">>>>)

\* the texts written after AS: "SELECT a, b FROM t", "select  a ,b   from t"
\* with runs of spaces, and "DELETE FROM t"
ViewBodies ==
  { Words(<<W_SELECT, <<"a", ",">>, <<"b">>, W_FROM, <<"t">>>>),
    <<"s","e","l","e","c","t"," "," ","a"," ",",","b"," "," "," ","f","r","o","m"," ","t">>,
    ViewBodyDelete }

\* "CREATE VIEW v (a, b) AS <body>"
ViewText(body) == CreateViewHead \o SP \o body

ViewTexts == {ViewText(b) : b \in ViewBodies}

\* "GRANT SELECT ON TABLE t TO u"
GrantText == Words(<<W_GRANT, W_SELECT, W_ON_TABLE, <<"t">>, W_TO, <<"u">>>>)

\* "REVOKE UPDATE ON TABLE t FROM u"
RevokeText == Words(<<W_REVOKE, W_UPDATE, W_ON_TABLE, <<"t">>, W_FROM, <<"u">>>>)

\* "SELECT a FROM t WHERE x"
SelectWhereX == Words(<<SelectWhere, <<"x">>>>)

\* "UPDATE t" and, on the next line, "a = '1'": the word SET is missing
UpdateNewline ==
  W_UPDATE \o SP \o <<"t", "\n">> \o Words(<<<<"a">>, EQ, Quoted(<<"1">>)>>)

\* "CREATE TABLE t (a SMALLINT, b DOUBLE, FOREIGN KEY (b) REFERENCES u (e),
\*  FOREIGN KEY (a) REFERENCES v (b))"
CreateTableTwoForeignKeys ==
  Words(<<W_CREATE_TABLE, <<"t">>, LP \o <<"a">>, W_SMALLINT \o COMMA, <<"b">>, W_DOUBLE \o COMMA,
          W_FOREIGN_KEY, LP \o <<"b">> \o RP, W_REFERENCES, <<"u">>, LP \o <<"e">> \o RP \o COMMA,
          W_FOREIGN_KEY, LP \o <<"a">> \o RP, W_REFERENCES, <<"v">>, LP \o <<"b">> \o RP \o RP>>)

\* "CREATE TABLE t (a SMALLINT, a DOUBLE, PRIMARY KEY (a, c))": a column
\* name that repeats, and a key column that was not defined
CreateTableRepeatedName ==
  Words(<<W_CREATE_TABLE, <<"t">>, LP \o <<"a">>, W_SMALLINT \o COMMA, <<"a">>, W_DOUBLE \o COMMA,
          W_PRIMARY_KEY, LP \o <<"a">> \o COMMA, <<"c">> \o RP \o RP>>)

\* "CREATE TABLE t (a SMALLINT UNIQUE) b DOUBLE": a column after the list
CreateTableAfterClosing ==
  Words(<<W_CREATE_TABLE, <<"t">>, LP \o <<"a">>, W_SMALLINT, W_UNIQUE \o RP, <<"b">>, W_DOUBLE>>)

\* "CREATE TABLE t (a SMALLINT CHECK (a IN (1, 2) AND a > 0))": a CHECK
\* clause with a predicate after an IN predicate
CreateTableCheckInAnd ==
  Words(<<W_CREATE_TABLE, <<"t">>, LP \o <<"a">>, W_SMALLINT, W_CHECK,
          LP \o <<"a">>, W_IN, LP \o <<"1", ",">>, <<"2">> \o RP, W_AND,
          <<"a">>, GT, <<"0">> \o RP \o RP>>)

BaseTexts ==
  { SelectAB,
    CreateTableCheckInAnd,
    CreateTableAfterClosing,
    CreateTableRepeatedName,
    CreateTableTwoForeignKeys,
    SelectWhereX,
    UpdateNewline,
    SelectBetween,
    Words(<<SelectWhere, <<"x">>, W_NOT_BETWEEN, <<"1">>, W_AND, <<"5">>>>),
    Words(<<W_SELECT, STAR, W_FROM, <<"t", ",">>, <<"u">>, W_WHERE, <<"x">>, EQ, Quoted(<<"1">>),
            W_AND, <<"y">>, GE, <<"2">>, W_OR, <<"z">>, NE, Quoted(<<"3">>)>>),
    Words(<<SelectWhere, <<"x">>, LT, <<"1">>, W_AND, <<"y">>, LE, <<"2">>, W_OR, <<"z">>, GT, <<"3">>>>),
    Words(<<SelectWhere, <<"x">>, W_LIKE, Quoted(<<"a">>), W_OR, <<"y">>, W_NOT_LIKE, Quoted(<<"b">>)>>),
    Words(<<SelectWhere, <<"x">>, W_IN, LP \o Quoted(<<"1">>) \o COMMA, Quoted(<<"2">>) \o RP>>),
    SelectInAnd,
    SelectNotInAnd,
    SelectBetweenOr,
    SelectInWhere,
    Words(<<SelectWhere, <<"x">>, EQ, <<"1">>, W_IN, LP \o <<"2">> \o RP>>),
    Words(<<SelectWhere, <<"x">>, EQ, <<"1">>, W_NOT_IN, LP \o <<"2">> \o RP>>),
    Words(<<SelectWhere, <<"x">>, EQ, <<"1">>, W_BETWEEN, <<"2">>, W_AND, <<"3">>>>),
    SelectWhereSemi,
    SelectWhereOpenQuote,
    Words(<<SelectWhere, <<"x">>, EQ, Quoted(<<"1">>), <<"y">>>>),
    Words(<<SelectWhere, <<"x">>, EQ, QUOTE \o <<"a","b">>>>),
    Words(<<SelectWhere, <<"x">>, EQ, Quoted(<<"a","\\","'","b">>)>>),
    <<"s","e","l","e","c","t"," ","a"," ","f","r","o","m"," ","t"," ",
      "w","h","e","r","e"," ","x"," ","=", " ","1"," ","a","n","d"," ","y"," ","=", " ","2">>,
    Words(<<W_INSERT_INTO, <<"t">>, LP \o <<"a",",","b">> \o RP, W_VALUES,
            LP \o Quoted(<<"1">>) \o COMMA \o Quoted(<<"2">>) \o RP>>),
    Words(<<W_INSERT_INTO, <<"t">>, LP \o <<"a",",","b">> \o RP, W_VALUES,
            LP \o Quoted(<<"1">>) \o RP>>),
    InsertTwoTuples,
    Words(<<W_INSERT_INTO, <<"t">>, LP \o <<"a">> \o RP, W_VALUES,
            LP \o Quoted(<<"1">>) \o RP, W_VALUES, LP \o Quoted(<<"2">>) \o RP>>),
    UpdateNoWhere,
    Words(<<W_UPDATE, <<"t">>, W_SET, <<"a">>, EQ, Quoted(<<"1">>) \o COMMA, <<"b">>, EQ,
            Quoted(<<"2">>), W_WHERE, <<"x">>, EQ, Quoted(<<"3">>)>>),
    DeleteNoWhere,
    Words(<<W_DELETE_FROM, <<"t">>, <<"u">>, SEMI>>),
    Words(<<W_DELETE_FROM, <<"t">>, W_WHERE, <<"x">>, EQ, Quoted(<<"1">>)>>),
    CreateTableIdName,
    Words(<<W_CREATE_TABLE, <<"t">>, LP \o <<"a">>, W_SMALLINT \o COMMA, <<"b">>, W_DOUBLE,
            W_UNIQUE \o COMMA, <<"c">>, W_VARCHAR \o LP \o <<"5">> \o RP \o COMMA,
            <<"d">>, W_DATETIME, W_DEFAULT \o COMMA,
            W_PRIMARY_KEY \o LP \o <<"a", ",">>, <<"b">> \o RP \o COMMA,
            W_FOREIGN_KEY \o LP \o <<"c">> \o RP, W_REFERENCES, <<"u">> \o LP \o <<"e">> \o RP \o RP>>),
    Words(<<W_CREATE_TABLE, <<"t">>, LP \o <<"a">>, W_SMALLINT, W_CHECK, LP \o <<"a">>, GT, <<"0">>,
            W_AND, <<"a">>, LE, <<"9">>, W_OR, <<"a">>, W_IN, LP \o <<"1", ",">>, <<"2">> \o RP \o RP \o COMMA,
            <<"b">>, W_VARCHAR \o LP \o <<"5">> \o RP \o RP \o COMMA,
            W_CHECK, LP \o <<"b">>, W_LIKE, Quoted(<<"x">>) \o RP \o COMMA,
            W_PRIMARY_KEY \o LP \o <<"a">> \o RP \o RP>>),
    Words(<<W_CREATE_TABLE, <<"t">>, LP \o <<"a">>, W_SMALLINT, W_NOT_NULL, W_UNIQUE \o RP>>),
    Words(<<W_CREATE_TABLE, <<"t">>, LP \o <<"a">>, W_SMALLINT \o RP, <<"b">>, W_DOUBLE>>),
    CreateViewNoColumns,
    CreateIndexText,
    Words(<<W_CREATE_USER, <<"u">>, W_IDENTIFIED_BY, Quoted(<<"p">>)>>),
    GrantText,
    RevokeText,
    Words(<<<<"D","R","O","P">>, <<"t">>>>),
    <<" ", "\t", " ">>,
    <<" ">> \o Words(<<W_SELECT, <<"a">>, W_FROM, <<"t">>>>) \o <<" ", "\n">> }

\* s in lower case
Lowered(s) ==
  [i \in 1..Len(s) |->
     IF s[i] \in UpperSet THEN LowerLetters[CHOOSE k \in 1..26 : UpperLetters[k] = s[i]]
     ELSE s[i]]

\* the first tokens stepBeginning knows
BeginWords ==
  {W_SELECT, W_INSERT_INTO, W_UPDATE, W_DELETE_FROM, W_CREATE_TABLE, W_CREATE_VIEW,
   W_CREATE_INDEX, W_CREATE_USER, W_GRANT, W_REVOKE}

\* each of them in lower case, with a name after it
LowerStarts == {Words(<<Lowered(w), <<"t">>>>) : w \in BeginWords}

\* statements with a name that begins with a word of the vocabulary where a
\* field name is read: info, total, settings begin with IN, TO, SET
ReservedPrefixTexts ==
  { Words(<<W_SELECT, <<"i","n","f","o">>, W_FROM, <<"t">>>>),
    Words(<<W_SELECT, <<"t","o","t","a","l">>, W_FROM, <<"t">>>>),
    Words(<<W_SELECT, <<"a", ",">>, <<"s","e","t","t","i","n","g","s">>, W_FROM, <<"t">>>>),
    Words(<<W_INSERT_INTO, <<"t">>, LP \o <<"i","n","f","o">> \o RP, W_VALUES,
            LP \o Quoted(<<"1">>) \o RP>>),
    Words(<<W_UPDATE, <<"t">>, W_SET, <<"t","o","t","a","l">>, EQ, Quoted(<<"1">>),
            W_WHERE, <<"x">>, EQ, Quoted(<<"1">>)>>),
    Words(<<SelectWhere, <<"i","n","f","o">>, EQ, Quoted(<<"1">>)>>),
    Words(<<W_CREATE_TABLE, <<"t">>, LP \o <<"i","n","f","o">>, W_SMALLINT \o COMMA,
            <<"b">>, W_DOUBLE, W_UNIQUE \o RP>>) }

\* every text parsed on its own: the base texts, what is left of each when
\* the input ends early, the generated SELECT and INSERT texts and the
\* lower-case statement starts
Texts ==
  UNION {Prefixes(s) : s \in BaseTexts \cup ViewTexts} \cup SelectTexts \cup InsertTexts
    \cup LowerStarts \cup ReservedPrefixTexts

\* the texts of the batches of more than one text
BatchTexts ==
  { Words(<<W_SELECT, <<"a">>, W_FROM, <<"t">>>>),
    Words(<<W_DELETE_FROM, <<"t">>, W_WHERE, <<"x">>, EQ, Quoted(<<"1">>)>>),
    Words(<<W_SELECT, W_FROM, <<"t">>>>),
    Words(<<W_UPDATE, <<"t">>, <<"a">>>>),
    Words(<<W_GRANT, W_SELECT>>) }

Batches ==
  {<<s>> : s \in Texts} \cup (ListsUpTo(BatchTexts, MaxTexts) \ ListsUpTo(BatchTexts, 1)) \cup {<<>>}

-----------------------------------------------------------------------------
(* The handlers: the table file a statement is executed on *)

\* getFileByName finds no file of the table's name
NoFile == [Name |-> <<>>, Fields |-> <<>>, exists |-> FALSE]

\* FieldJson: the column of the table file for the column definition field
FieldJson(field) ==
  [ Name |-> field.Name, NotNull |-> field.NotNull, Unique |-> field.Unique,
    PrimaryKey |-> field.PrimaryKey, Data |-> <<>> ]

\* handleCreateTable: the file is created, or truncated, and written with
\* the columns of the statement, each without data
handleCreateTable(sql) ==
  [ table |-> [ Name |-> sql.Tables[1],
                Fields |-> [i \in 1..Len(sql.CreateFields) |-> FieldJson(sql.CreateFields[i])],
                exists |-> TRUE ],
    rows |-> 0, err |-> Nil ]

checkUnique(value, field) ==
  IF ~field.PrimaryKey /\ ~field.Unique THEN TRUE
  ELSE \A i \in 1..Len(field.Data) : field.Data[i] # value

checkNotNull(value, field) ==
  IF ~field.PrimaryKey /\ ~field.NotNull THEN TRUE
  ELSE value # <<>>

RECURSIVE InsertValues(_, _, _)
\* handleInsert, the loop over sql.Inserts: the value at index of each row is
\* checked and appended to the column; a row too short for index panics
InsertValues(field, inserts, index) ==
  IF inserts = <<>> THEN [field |-> field, err |-> Nil]
  ELSE LET insertValue == Head(inserts)
       IN IF index > Len(insertValue)
          THEN [field |-> field, err |-> "panic: index out of range"]
          ELSE IF ~checkUnique(insertValue[index], field)
          THEN [field |-> field, err |-> "at INSERT: insert value breaks UNIQUE constraint"]
          ELSE IF ~checkNotNull(insertValue[index], field)
          THEN [field |-> field, err |-> "at INSERT: attempt to insert a null value to a NOT NULL field"]
          ELSE InsertValues([field EXCEPT !.Data = Append(@, insertValue[index])],
                            Tail(inserts), index)

RECURSIVE InsertIntoNamed(_, _, _, _, _, _)
\* handleInsert, the loop over table.Fields from tableIndex on: every column
\* named insertFieldName takes the rows; flag tells whether one was found
InsertIntoNamed(fields, tableIndex, insertFieldName, inserts, index, flag) ==
  IF tableIndex > Len(fields) THEN [fields |-> fields, err |-> Nil, flag |-> flag]
  ELSE IF fields[tableIndex].Name # insertFieldName
  THEN InsertIntoNamed(fields, tableIndex + 1, insertFieldName, inserts, index, flag)
  ELSE LET r == InsertValues(fields[tableIndex], inserts, index)
       IN IF r.err # Nil THEN [fields |-> fields, err |-> r.err, flag |-> TRUE]
          ELSE InsertIntoNamed([fields EXCEPT ![tableIndex] = r.field], tableIndex + 1,
                               insertFieldName, inserts, index, TRUE)

RECURSIVE InsertFields(_, _, _, _)
\* handleInsert, the loop over sql.Fields from index on
InsertFields(fields, sqlFields, inserts, index) ==
  IF index > Len(sqlFields) THEN [fields |-> fields, err |-> Nil]
  ELSE LET r == InsertIntoNamed(fields, 1, sqlFields[index], inserts, index, FALSE)
       IN IF r.err # Nil THEN [fields |-> fields, err |-> r.err]
          ELSE IF ~r.flag THEN [fields |-> fields, err |-> "at INSERT: unknown field"]
          ELSE InsertFields(r.fields, sqlFields, inserts, index + 1)

\* a handleInsert that writes the file with the rows inserted before the failure
handleInsert_partial(table, sql) ==
  IF ~table.exists \/ table.Name # sql.Tables[1]
  THEN [table |-> table, rows |-> 0, err |-> "at INSERT: unknown table name"]
  ELSE LET first == InsertFields(table.Fields, SubSeq(sql.Fields, 1, 1), sql.Inserts, 1)
           r == InsertFields(table.Fields, sql.Fields, sql.Inserts, 1)
       IN IF r.err # Nil
          THEN [table |-> [table EXCEPT !.Fields = first.fields], rows |-> 0, err |-> r.err]
          ELSE [table |-> [table EXCEPT !.Fields = r.fields],
                rows |-> Len(sql.Inserts), err |-> Nil]

\* handleInsert on the table file table: the file is written only when no
\* row failed
handleInsert(table, sql) ==
  IF ~table.exists \/ table.Name # sql.Tables[1]
  THEN [table |-> table, rows |-> 0, err |-> "at INSERT: unknown table name"]
  ELSE LET r == InsertFields(table.Fields, sql.Fields, sql.Inserts, 1)
       IN IF r.err # Nil THEN [table |-> table, rows |-> 0, err |-> r.err]
          ELSE [table |-> [table EXCEPT !.Fields = r.fields],
                rows |-> Len(sql.Inserts), err |-> Nil]

RECURSIVE SumLen(_, _)
\* handleUpdate, rows: the number of values of the columns named in names
SumLen(fields, names) ==
  IF fields = <<>> THEN 0
  ELSE (IF Head(fields).Name \in names THEN Len(Head(fields).Data) ELSE 0)
       + SumLen(Tail(fields), names)

\* handleUpdate: every value of every column named in sql.Updates becomes the
\* new value; a name that is no column of the table is an error
handleUpdate(table, sql) ==
  IF ~table.exists \/ table.Name # sql.Tables[1]
  THEN [table |-> table, rows |-> 0, err |-> "at INSERT: unknown table name"]
  ELSE IF \E fieldName \in DOMAIN sql.Updates :
            \A i \in 1..Len(table.Fields) : table.Fields[i].Name # fieldName
  THEN [table |-> table, rows |-> 0, err |-> "at UPDATE: unknown field"]
  ELSE [ table |-> [table EXCEPT !.Fields =
                      [i \in 1..Len(table.Fields) |->
                         IF table.Fields[i].Name \in DOMAIN sql.Updates
                         THEN [table.Fields[i] EXCEPT !.Data =
                                 [k \in 1..Len(@) |-> sql.Updates[table.Fields[i].Name]]]
                         ELSE table.Fields[i]]],
         rows |-> SumLen(table.Fields, DOMAIN sql.Updates), err |-> Nil ]

\* handleDelete: every column loses its data; rows is the longest column
handleDelete(table, sql) ==
  IF ~table.exists \/ table.Name # sql.Tables[1]
  THEN [table |-> table, rows |-> 0, err |-> "at INSERT: unknown table name"]
  ELSE [ table |-> [table EXCEPT !.Fields =
                      [i \in 1..Len(table.Fields) |-> [table.Fields[i] EXCEPT !.Data = <<>>]]],
         rows |-> IF table.Fields = <<>> THEN 0
                  ELSE LastOf({Len(table.Fields[i].Data) : i \in 1..Len(table.Fields)}),
         err |-> Nil ]

-----------------------------------------------------------------------------
(* ParseMany, parse and the main loop of doParse *)

VARIABLES
  sqls,   \* ParseMany: the texts it was called with
  idx,    \* ParseMany: the index of the next text of the range loop
  qs,     \* ParseMany: the statements parsed so far
  err,    \* the error ParseMany returns
  p,      \* the parser of the parse call in progress
  pc,     \* "ParseMany": at the head of the range loop; "doParse": in the
          \* main loop; "returned": ParseMany has returned
  calls,  \* the number of calls of parse
  spin    \* the iterations of the main loop since the parser last changed

VARIABLES
  table,  \* the table file: NoFile, or the table with the data of its columns
  rows,   \* the row count the last handler returned
  herr,   \* the error the last handler returned
  op      \* the Type of the last statement handled, "none" before the first

vars == <<sqls, idx, qs, err, p, pc, calls, spin, table, rows, herr, op>>

\* no statement is being handled
storeVars == <<table, rows, herr, op>>

Init ==
  /\ sqls \in Batches
  /\ idx = 1
  /\ qs = <<>>
  /\ err = Nil
  /\ p = NewParser(<<>>)
  /\ pc = "ParseMany"
  /\ calls = 0
  /\ spin = 0
  /\ table = NoFile
  /\ rows = 0
  /\ herr = Nil
  /\ op = "none"

\* a call of parse that goes on with the statement of the call before
ParseManyCall_sharingQuery ==
  /\ pc = "ParseMany"
  /\ idx <= Len(sqls)
  /\ p' = [NewParser(sqls[idx]) EXCEPT !.query = p.query]
  /\ calls' = calls + 1
  /\ pc' = "doParse"
  /\ spin' = 0
  /\ UNCHANGED <<sqls, idx, qs, err>>
  /\ UNCHANGED storeVars

\* ParseMany: the range loop takes the next text and calls parse
ParseManyCall ==
  /\ pc = "ParseMany"
  /\ idx <= Len(sqls)
  /\ p' = NewParser(sqls[idx])
  /\ calls' = calls + 1
  /\ pc' = "doParse"
  /\ spin' = 0
  /\ UNCHANGED <<sqls, idx, qs, err>>
  /\ UNCHANGED storeVars

\* ParseMany: the range loop is over, return qs, nil
ParseManyReturn ==
  /\ pc = "ParseMany"
  /\ idx > Len(sqls)
  /\ pc' = "returned"
  /\ err' = Nil
  /\ UNCHANGED <<sqls, idx, qs, p, calls, spin>>
  /\ UNCHANGED storeVars

\* doParse at end of input returns p.query, p.err (which is nil); ParseMany
\* appends the statement and goes on
doParseEnd ==
  /\ pc = "doParse"
  /\ p.position >= Len(p.sql)
  /\ qs' = Append(qs, p.query)
  /\ idx' = idx + 1
  /\ pc' = "ParseMany"
  /\ UNCHANGED <<sqls, err, p, calls, spin>>
  /\ UNCHANGED storeVars

\* the main loop takes one more iteration, in state s.  An iteration that
\* leaves the parser as it found it will be repeated for ever: it is
\* followed MaxSpin times.
AtStep(s) ==
  /\ pc = "doParse"
  /\ p.position < Len(p.sql)
  /\ p.step = s
  /\ spin < MaxSpin

\* a ParseMany that drops a failing text and goes on with the next
Iterate_skippingFailure(r) ==
  /\ p' = r.p
  /\ err' = r.err
  /\ pc' = IF r.err # Nil THEN "ParseMany" ELSE "doParse"
  /\ idx' = IF r.err # Nil THEN idx + 1 ELSE idx
  /\ spin' = IF r.err = Nil /\ r.p = p THEN spin + 1 ELSE 0
  /\ UNCHANGED <<sqls, qs, calls>>
  /\ UNCHANGED storeVars

\* the iteration does r: an error is returned through parse to ParseMany,
\* which returns qs and the error; otherwise the loop goes on
Iterate(r) ==
  /\ p' = r.p
  /\ err' = r.err
  /\ pc' = IF r.err # Nil THEN "returned" ELSE "doParse"
  /\ spin' = IF r.err = Nil /\ r.p = p THEN spin + 1 ELSE 0
  /\ UNCHANGED <<sqls, idx, qs, calls>>
  /\ UNCHANGED storeVars

\* a state the switch has no case for
stepWithoutCase ==
  /\ \E s \in StepsWithoutCase : AtStep(s)
  /\ Iterate(case_none(p))

\* ParseMany's loop and, within a call of doParse, one iteration of its loop:
\* the case of the switch for the state the parser is in
Next ==
  \/ ParseManyCall
  \/ ParseManyReturn
  \/ doParseEnd
  \/ AtStep("stepBeginning") /\ Iterate(case_stepBeginning(p))
  \/ AtStep("stepSelectField") /\ Iterate(case_stepSelectField(p))
  \/ AtStep("stepSelectComma") /\ Iterate(case_stepSelectComma(p))
  \/ AtStep("stepSelectFrom") /\ Iterate(case_stepSelectFrom(p))
  \/ AtStep("stepSelectFromTable") /\ Iterate(case_stepSelectFromTable(p))
  \/ AtStep("stepSelectFromTableComma") /\ Iterate(case_stepSelectFromTableComma(p))
  \/ AtStep("stepInsertTable") /\ Iterate(case_stepInsertTable(p))
  \/ AtStep("stepInsertFieldsOpeningParens") /\ Iterate(case_stepInsertFieldsOpeningParens(p))
  \/ AtStep("stepInsertFields") /\ Iterate(case_stepInsertFields(p))
  \/ AtStep("stepInsertFieldsCommaOrClosingParens") /\ Iterate(case_stepInsertFieldsCommaOrClosingParens(p))
  \/ AtStep("stepInsertValue") /\ Iterate(case_stepInsertValue(p))
  \/ AtStep("stepInsertValuesOpeningParens") /\ Iterate(case_stepInsertValuesOpeningParens(p))
  \/ AtStep("stepInsertValues") /\ Iterate(case_stepInsertValues(p))
  \/ AtStep("stepInsertValuesCommaOrClosingParens") /\ Iterate(case_stepInsertValuesCommaOrClosingParens(p))
  \/ AtStep("stepUpdateTable") /\ Iterate(case_stepUpdateTable(p))
  \/ AtStep("stepUpdateSet") /\ Iterate(case_stepUpdateSet(p))
  \/ AtStep("stepUpdateField") /\ Iterate(case_stepUpdateField(p))
  \/ AtStep("stepUpdateEqual") /\ Iterate(case_stepUpdateEqual(p))
  \/ AtStep("stepUpdateValue") /\ Iterate(case_stepUpdateValue(p))
  \/ AtStep("stepUpdateComma") /\ Iterate(case_stepUpdateComma(p))
  \/ AtStep("stepDeleteFromTable") /\ Iterate(case_stepDeleteFromTable(p))
  \/ AtStep("stepWhere") /\ Iterate(case_stepWhere(p))
  \/ AtStep("stepWhereField") /\ Iterate(case_stepWhereField(p))
  \/ AtStep("stepWhereOperator") /\ Iterate(case_stepWhereOperator(p))
  \/ AtStep("stepWhereValue") /\ Iterate(case_stepWhereValue(p))
  \/ AtStep("stepWhereAnd") /\ Iterate(case_stepWhereAnd(p))
  \/ AtStep("stepWhereOr") /\ Iterate(case_stepWhereOr(p))
  \/ AtStep("stepWhereIn") /\ Iterate(case_stepWhereIn(p))
  \/ AtStep("stepWhereNotIn") /\ Iterate(case_stepWhereNotIn(p))
  \/ AtStep("stepWhereInOpeningParens") /\ Iterate(case_stepWhereInOpeningParens(p))
  \/ AtStep("stepWhereInValue") /\ Iterate(case_stepWhereInValue(p))
  \/ AtStep("stepWhereInCommaOrClosingParens") /\ Iterate(case_stepWhereInCommaOrClosingParens(p))
  \/ AtStep("stepWhereBetween") /\ Iterate(case_stepWhereBetween(p))
  \/ AtStep("stepWhereNotBetween") /\ Iterate(case_stepWhereNotBetween(p))
  \/ AtStep("stepWhereBetweenValue") /\ Iterate(case_stepWhereBetweenValue(p))
  \/ AtStep("stepWhereBetweenAnd") /\ Iterate(case_stepWhereBetweenAnd(p))
  \/ AtStep("stepWhereBetweenAndValue") /\ Iterate(case_stepWhereBetweenAndValue(p))
  \/ AtStep("stepCreateViewName") /\ Iterate(case_stepCreateViewName(p))
  \/ AtStep("stepCreateViewOpeningParens") /\ Iterate(case_stepCreateViewOpeningParens(p))
  \/ AtStep("stepCreateViewField") /\ Iterate(case_stepCreateViewField(p))
  \/ AtStep("stepCreateViewCommaOrClosingParens") /\ Iterate(case_stepCreateViewCommaOrClosingParens(p))
  \/ AtStep("stepCreateViewAs") /\ Iterate(case_stepCreateViewAs(p))
  \/ AtStep("stepCreateViewSelect") /\ Iterate(case_stepCreateViewSelect(p))
  \/ AtStep("stepCreateTableName") /\ Iterate(case_stepCreateTableName(p))
  \/ AtStep("stepCreateTableOpeningParens") /\ Iterate(case_stepCreateTableOpeningParens(p))
  \/ AtStep("stepCreateTableField") /\ Iterate(case_stepCreateTableField(p))
  \/ AtStep("stepCreateTableFieldType") /\ Iterate(case_stepCreateTableFieldType(p))
  \/ AtStep("stepCreateTableFieldOpeningParens") /\ Iterate(case_stepCreateTableFieldOpeningParens(p))
  \/ AtStep("stepCreateTableFieldLength") /\ Iterate(case_stepCreateTableFieldLength(p))
  \/ AtStep("stepCreateTableFieldClosingParens") /\ Iterate(case_stepCreateTableFieldClosingParens(p))
  \/ AtStep("stepCreateTableConstraintType") /\ Iterate(case_stepCreateTableConstraintType(p))
  \/ AtStep("stepCheck") /\ Iterate(case_stepCheck(p))
  \/ AtStep("stepCheckOpeningParens") /\ Iterate(case_stepCheckOpeningParens(p))
  \/ AtStep("stepCheckField") /\ Iterate(case_stepCheckField(p))
  \/ AtStep("stepCheckOperator") /\ Iterate(case_stepCheckOperator(p))
  \/ AtStep("stepCheckValue") /\ Iterate(case_stepCheckValue(p))
  \/ AtStep("stepCheckIn") /\ Iterate(case_stepCheckIn(p))
  \/ AtStep("stepCheckInOpeningParens") /\ Iterate(case_stepCheckInOpeningParens(p))
  \/ AtStep("stepCheckInValue") /\ Iterate(case_stepCheckInValue(p))
  \/ AtStep("stepCheckInCommaOrClosingParens") /\ Iterate(case_stepCheckInCommaOrClosingParens(p))
  \/ AtStep("stepCheckClosingParens") /\ Iterate(case_stepCheckClosingParens(p))
  \/ AtStep("stepCheckAnd") /\ Iterate(case_stepCheckAnd(p))
  \/ AtStep("stepCheckOr") /\ Iterate(case_stepCheckOr(p))
  \/ AtStep("stepCreateTableClosingParens") /\ Iterate(case_stepCreateTableClosingParens(p))
  \/ AtStep("stepCreateTableComma") /\ Iterate(case_stepCreateTableComma(p))
  \/ AtStep("stepPrimaryKey") /\ Iterate(case_stepPrimaryKey(p))
  \/ AtStep("stepPrimaryKeyOpeningParens") /\ Iterate(case_stepPrimaryKeyOpeningParens(p))
  \/ AtStep("stepPrimaryKeyField") /\ Iterate(case_stepPrimaryKeyField(p))
  \/ AtStep("stepPrimaryKeyCommaOrClosingParens") /\ Iterate(case_stepPrimaryKeyCommaOrClosingParens(p))
  \/ AtStep("stepForeignKey") /\ Iterate(case_stepForeignKey(p))
  \/ AtStep("stepForeignKeyOpeningParens") /\ Iterate(case_stepForeignKeyOpeningParens(p))
  \/ AtStep("stepForeignKeyField") /\ Iterate(case_stepForeignKeyField(p))
  \/ AtStep("stepForeignKeyClosingParens") /\ Iterate(case_stepForeignKeyClosingParens(p))
  \/ AtStep("stepForeignKeyReference") /\ Iterate(case_stepForeignKeyReference(p))
  \/ AtStep("stepForeignKeyReferenceTable") /\ Iterate(case_stepForeignKeyReferenceTable(p))
  \/ AtStep("stepForeignKeyReferenceFieldOpeningParens") /\ Iterate(case_stepForeignKeyReferenceFieldOpeningParens(p))
  \/ AtStep("stepForeignKeyReferenceField") /\ Iterate(case_stepForeignKeyReferenceField(p))
  \/ AtStep("stepForeignKeyReferenceFieldClosingParens") /\ Iterate(case_stepForeignKeyReferenceFieldClosingParens(p))
  \/ stepWithoutCase

Spec == Init /\ [][Next]_vars

-----------------------------------------------------------------------------
(* The handlers executed on one table file *)

\* the values of the rows inserted and of the updates
StoreValues == {<<>>, <<"1">>, <<"2">>}

\* the rows of an INSERT: pairs of values, and a row with one value
StoreRows ==
  {<<<<"1">>, <<"1">>>>, <<<<"2">>, <<>>>>, <<<<>>, <<"2">>>>, <<<<"2">>, <<"2">>>>, <<<<"1">>>>}

\* CREATE TABLE t (a .. PRIMARY KEY, b ..) and
\* CREATE TABLE t (a .. UNIQUE, b .. NOT NULL), as parsed
CreateTableSqls ==
  { [ZeroSql EXCEPT !.Type = "CreateTable", !.Tables = <<<<"t">>>>,
                    !.CreateFields = <<[NewField(<<"a">>) EXCEPT !.PrimaryKey = TRUE],
                                       NewField(<<"b">>)>>],
    [ZeroSql EXCEPT !.Type = "CreateTable", !.Tables = <<<<"t">>>>,
                    !.CreateFields = <<[NewField(<<"a">>) EXCEPT !.Unique = TRUE],
                                       [NewField(<<"b">>) EXCEPT !.NotNull = TRUE]>>] }

\* INSERT INTO t (fields) VALUES rows, and an INSERT INTO u, as parsed
InsertSqls ==
  { [ZeroSql EXCEPT !.Type = "Insert", !.Tables = <<<<"t">>>>, !.Fields = fields, !.Inserts = inserts] :
      fields \in {<<<<"a">>>>, <<<<"b">>>>, <<<<"a">>, <<"b">>>>, <<<<"c">>>>},
      inserts \in {<<r>> : r \in StoreRows} \cup {<<r1, r2>> : r1 \in StoreRows, r2 \in StoreRows} }
  \cup
  { [ZeroSql EXCEPT !.Type = "Insert", !.Tables = <<<<"u">>>>, !.Fields = <<<<"a">>>>,
                    !.Inserts = <<<<<<"1">>>>>>] }

\* UPDATE t SET field = value and UPDATE u .., as parsed
UpdateSqls ==
  { [ZeroSql EXCEPT !.Type = "Update", !.Tables = <<tableName>>,
                    !.Updates = MapSet(<<>>, field, value)] :
      tableName \in {<<"t">>, <<"u">>}, field \in {<<"a">>, <<"b">>, <<"c">>}, value \in StoreValues }

\* DELETE FROM t and DELETE FROM u, as parsed
DeleteSqls ==
  { [ZeroSql EXCEPT !.Type = "Delete", !.Tables = <<tableName>>] : tableName \in {<<"t">>, <<"u">>} }

\* the parser is not running
parserVars == <<sqls, idx, qs, err, p, pc, calls, spin>>

StoreInit ==
  /\ sqls = <<>>
  /\ idx = 1
  /\ qs = <<>>
  /\ err = Nil
  /\ p = NewParser(<<>>)
  /\ pc = "returned"
  /\ calls = 0
  /\ spin = 0
  /\ table = NoFile
  /\ rows = 0
  /\ herr = Nil
  /\ op = "none"

\* no column of the table file holds more than MaxRows values
Fits(t) == \A i \in 1..Len(t.Fields) : Len(t.Fields[i].Data) <= MaxRows

\* Handle, case CreateTable
HandleCreateTable ==
  \E sql \in CreateTableSqls :
    LET r == handleCreateTable(sql)
    IN /\ table' = r.table /\ rows' = r.rows /\ herr' = r.err
       /\ op' = "CreateTable"
       /\ UNCHANGED parserVars

\* Handle, case Insert
HandleInsert ==
  \E sql \in InsertSqls :
    LET r == handleInsert(table, sql)
    IN /\ Fits(r.table)
       /\ table' = r.table /\ rows' = r.rows /\ herr' = r.err
       /\ op' = "Insert"
       /\ UNCHANGED parserVars

\* Handle, case Update
HandleUpdate ==
  \E sql \in UpdateSqls :
    LET r == handleUpdate(table, sql)
    IN /\ table' = r.table /\ rows' = r.rows /\ herr' = r.err
       /\ op' = "Update"
       /\ UNCHANGED parserVars

\* Handle, case Delete
HandleDelete ==
  \E sql \in DeleteSqls :
    LET r == handleDelete(table, sql)
    IN /\ table' = r.table /\ rows' = r.rows /\ herr' = r.err
       /\ op' = "Delete"
       /\ UNCHANGED parserVars

StoreNext ==
  \/ HandleCreateTable
  \/ HandleInsert
  \/ HandleUpdate
  \/ HandleDelete

StoreSpec == StoreInit /\ [][StoreNext]_vars

-----------------------------------------------------------------------------
(* What Parse returns *)

Returned == pc = "returned"

\* ParseMany was called by Parse(sql): the batch is the one text sql
ParseCall == Len(sqls) = 1

\* a Parse that returns the statement as the parser left it
Parse_partial == [parsedSql |-> p.query, err |-> err]

\* what Parse returns once its call of ParseMany has returned
Parse == [parsedSql |-> IF Len(qs) = 0 THEN ZeroSql ELSE qs[1], err |-> err]

\* Parse(sql) has returned
Parsed(sql) == Returned /\ sqls = <<sql>>

\* no entry of the vocabulary is a prefix of the upper-cased name
NoLegalPrefix(name) ==
  \A i \in 1..Len(legalWords) : ~MatchesAt(name, 0, legalWords[i])

Range(f) == {f[i] : i \in DOMAIN f}

-----------------------------------------------------------------------------
(* Properties *)

\* C1: parsing always terminates: no iteration of the main loop leaves the
\* parser (cursor, state, statement) as it found it, which it would then
\* repeat for ever
C1_Terminates == spin = 0

\* C2: an input that ends before a token its grammar still requires
\* ('SELECT a', 'INSERT INTO t (a', 'UPDATE t SET a') is rejected with an error
C2_TruncatedRejected ==
  \A sql \in { Words(<<W_SELECT, <<"a">>>>),
               Words(<<W_INSERT_INTO, <<"t">>, LP \o <<"a">>>>),
               Words(<<W_UPDATE, <<"t">>, W_SET, <<"a">>>>) } :
    Parsed(sql) => Parse.err # Nil

\* C3: an UPDATE or DELETE FROM statement without a WHERE condition is an
\* error, never a statement
C3_WhereMandatory ==
  \A sql \in {UpdateNoWhere, DeleteNoWhere} : Parsed(sql) => Parse.err # Nil

\* C4: INSERT INTO t (c1..cn) VALUES (v1..vm) with m # n is an error, and
\* every row of a returned INSERT statement has as many values as columns
C4_InsertArity ==
  \A cs \in ListsUpTo(ColumnNames, MaxList), vs \in ListsUpTo(Literals, MaxList) :
    Parsed(InsertText(cs, vs)) =>
      /\ Len(vs) # Len(cs) => Parse.err # Nil
      /\ Parse.err = Nil =>
           \A i \in 1..Len(Parse.parsedSql.Inserts) :
             Len(Parse.parsedSql.Inserts[i]) = Len(Parse.parsedSql.Fields)

\* C5: Parse never returns a nil error with a statement of Type Unknown
C5_UnknownNeverSuccess ==
  (Returned /\ ParseCall /\ Parse.err = Nil) => Parse.parsedSql.Type # "Unknown"

\* C6: ParseMany parses the texts in order and stops at the first failure:
\* it returns the statements of the texts before the first failing one with
\* that text's error and has parsed no later text; with no failure it
\* returns one statement per text and nil
C6_ParseManyStopsAtFirstFailure ==
  Returned =>
    LET fails == {i \in 1..Len(sqls) : parse(sqls[i]).err # Nil}
        k == IF fails = {} THEN Len(sqls) + 1 ELSE MinOf(fails)
    IN /\ Len(qs) = k - 1
       /\ \A i \in 1..(k - 1) : qs[i] = parse(sqls[i]).q
       /\ err = IF fails = {} THEN Nil ELSE parse(sqls[k]).err
       /\ calls = IF fails = {} THEN Len(sqls) ELSE k

\* C6 happens: a batch fails at a text that is neither its first nor its last
C6_Witness ==
  Returned /\ err # Nil /\ Len(qs) >= 1 /\ calls < Len(sqls)

\* C7: when Parse returns an error the statement it returns is the zero
\* value, whatever was populated before the failure
C7_NoPartialOnError ==
  (Returned /\ ParseCall /\ Parse.err # Nil) => Parse.parsedSql = ZeroSql

\* C7 happens: Parse fails after tables and fields were populated
C7_Witness ==
  /\ Returned /\ ParseCall /\ Parse.err # Nil
  /\ p.query.Tables # <<>> /\ p.query.Fields # <<>>

\* what C8 says of Parse("SELECT f1, ..., fn FROM t1, ..., tm")
SelectParsed(fs, ts) ==
  /\ Parse.err = Nil
  /\ Parse.parsedSql.Type = "Select"
  /\ Parse.parsedSql.Fields = fs
  /\ Parse.parsedSql.Tables = ts
  /\ Parse.parsedSql.Conditions = <<>>

\* C8 as stated: for all identifiers f1..fn, t1..tm the text
\* SELECT f1, ..., fn FROM t1, ..., tm parses to Select, Fields f1..fn,
\* Tables t1..tm, no Conditions
C8_SelectAnyIdentifiers ==
  \A fs \in ListsUpTo(FieldNames, MaxList), ts \in ListsUpTo(TableNames, MaxList) :
    Parsed(SelectText(fs, ts)) => SelectParsed(fs, ts)

\* C8 amended: the same for identifiers none of which begins with an entry
\* of the vocabulary
C8_SelectPlainIdentifiers ==
  \A fs \in ListsUpTo(FieldNames, MaxList), ts \in ListsUpTo(TableNames, MaxList) :
    (/\ Parsed(SelectText(fs, ts))
     /\ \A n \in Range(fs) \cup Range(ts) : NoLegalPrefix(n))
      => SelectParsed(fs, ts)

\* C8 happens: the spec's case SELECT a, b FROM t has been parsed
C8_Witness ==
  Parsed(SelectAB) /\ Parse.parsedSql.Fields = << <<"a">>, <<"b">> >>

\* C9: an inline PRIMARY KEY sets the PrimaryKey flag and an inline NOT NULL
\* the NotNull flag of the column being defined; the spec's CREATE TABLE
\* gives two columns, the first a primary key, the second not null of length 20
C9_InlineConstraintFlags ==
  /\ \A i \in 1..Len(p.query.CreateFields) :
       LET f == p.query.CreateFields[i]
       IN /\ "PrimaryKey" \in Range(f.Constraint) => f.PrimaryKey
          /\ "NotNull" \in Range(f.Constraint) => f.NotNull
  /\ Parsed(CreateTableIdName) =>
       /\ Parse.err = Nil
       /\ Len(Parse.parsedSql.CreateFields) = 2
       /\ Parse.parsedSql.CreateFields[1].PrimaryKey
       /\ Parse.parsedSql.CreateFields[2].NotNull
       /\ Parse.parsedSql.CreateFields[2].DataLength = 20

\* C10: WHERE x BETWEEN '1' AND '10' gives one Condition marked Between that
\* keeps x as operand 1, flagged as a field, and holds both bounds
C10_BetweenCondition ==
  Parsed(SelectBetween) =>
    /\ Parse.err = Nil
    /\ Len(Parse.parsedSql.Conditions) = 1
    /\ LET c == Parse.parsedSql.Conditions[1]
       IN /\ c.Operator = "Between" \/ c.IsBetween
          /\ c.Operand1 = <<"x">> /\ c.Operand1IsField
          /\ c.BetweenOperand1 = <<"1">> /\ c.BetweenOperand2 = <<"1","0">>
          /\ ~c.Operand2IsField

\* an iteration of the main loop of doParse is taken
Iteration == pc = "doParse" /\ p.position < Len(p.sql) /\ pc' # "ParseMany"

\* C11: in the initial state the first token, compared in upper case, fixes
\* the statement Type and the entry state; any other first token is the
\* error 'unknown query type'; no later iteration changes Type
C11_Dispatch ==
  [][/\ Iteration =>
       IF p.step = "stepBeginning"
       THEN LET w == ToUpper(peek(p))
                is(t, s) == err' = Nil /\ p'.query.Type = t /\ p'.step = s
            IN CASE w = W_SELECT -> is("Select", "stepSelectField")
                 [] w = W_INSERT_INTO -> is("Insert", "stepInsertTable")
                 [] w = W_UPDATE -> is("Update", "stepUpdateTable")
                 [] w = W_DELETE_FROM -> is("Delete", "stepDeleteFromTable")
                 [] w = W_CREATE_TABLE -> is("CreateTable", "stepCreateTableName")
                 [] w = W_CREATE_VIEW -> is("CreateView", "stepCreateViewName")
                 [] w = W_CREATE_INDEX -> is("CreateIndex", "stepCreateIndexName")
                 [] w = W_CREATE_USER -> is("CreateUser", "stepCreateUserName")
                 [] w = W_GRANT -> is("Grant", "stepGrantPrivilege")
                 [] w = W_REVOKE -> is("Revoke", "stepRevokePrivilege")
                 [] OTHER -> err' = "unknown query type" /\ pc' = "returned"
       ELSE p'.query.Type = p.query.Type
    /\ (Iteration /\ p.step = "stepBeginning" /\ p.sql \in LowerStarts) => err' = Nil]_vars

\* C11 happens: a statement begun in lower case has been dispatched and the
\* main loop has gone on from its entry state
C11_Witness ==
  /\ sqls = <<Words(<<Lowered(W_DELETE_FROM), <<"t">>>>)>>
  /\ p.query.Type = "Delete" /\ p.query.Tables = << <<"t">> >>

\* C12: when Parse returns an error, the offset reported with it (the cursor
\* position) is at the first unconsumed character that is not whitespace:
\* it is never at a whitespace character
C12_ErrorOffset ==
  (Returned /\ ParseCall /\ Parse.err # Nil) =>
    (p.position = Len(p.sql) \/ p.sql[p.position + 1] \notin WhiteSpace)

\* C13: after a completed IN (...), NOT IN (...) or BETWEEN v1 AND v2
\* condition, a following AND or OR and a further condition are accepted
\* and appended as the next Condition
C13_ChainAfterInAndBetween ==
  \A sql \in {SelectInAnd, SelectNotInAnd, SelectBetweenOr} :
    Parsed(sql) =>
      /\ Parse.err = Nil
      /\ Len(Parse.parsedSql.Conditions) = 2
      /\ Parse.parsedSql.Conditions[2].Operand1 = <<"y">>

\* C14: a statement returned without error that has at least one Condition
\* has one ConditionOperator fewer than Conditions
C14_OperatorsBetweenConditions ==
  (Returned /\ ParseCall /\ Parse.err = Nil /\ Len(Parse.parsedSql.Conditions) >= 1) =>
    Len(Parse.parsedSql.ConditionOperators) = Len(Parse.parsedSql.Conditions) - 1

\* C15: INSERT INTO t (a) VALUES ('1'), ('2'), two tuples separated by a
\* comma after one VALUES, is returned without error with one row per
\* tuple, in order, the quotes removed
C15_InsertTuples ==
  Parsed(InsertTwoTuples) =>
    /\ Parse.err = Nil
    /\ Parse.parsedSql.Inserts = << << <<"1">> >>, << <<"2">> >> >>

\* C16: the column list of CREATE VIEW is optional: CREATE VIEW v AS
\* SELECT a FROM t is returned as a CreateView statement with Tables [v],
\* no Fields and the text after AS in ViewSelect
C16_ViewColumnsOptional ==
  Parsed(CreateViewNoColumns) =>
    /\ Parse.err = Nil
    /\ Parse.parsedSql.Type = "CreateView"
    /\ Parse.parsedSql.Tables = << <<"v">> >>
    /\ Parse.parsedSql.Fields = <<>>
    /\ Parse.parsedSql.ViewSelect = Words(<<W_SELECT, <<"a">>, W_FROM, <<"t">>>>)

\* C17: once AS is consumed, one iteration stores the text from the cursor
\* to the end of input in ViewSelect as written and moves the cursor to the
\* end of input, and the parse then returns without error: CREATE VIEW v
\* (a, b) AS <body> returns ViewSelect = <body>
C17_ViewSelectVerbatim ==
  /\ [][(Iteration /\ p.step = "stepCreateViewSelect") =>
          /\ err' = Nil
          /\ p'.query.ViewSelect = SubSeq(p.sql, p.position + 1, Len(p.sql))
          /\ p'.position = Len(p.sql)]_vars
  /\ [](\A body \in ViewBodies :
          Parsed(ViewText(body)) =>
            /\ Parse.err = Nil
            /\ Parse.parsedSql.ViewSelect = body
            /\ Parse.parsedSql.Fields = << <<"a">>, <<"b">> >>)

\* C17 happens: a body in lower case with runs of spaces has been stored
C17_Witness ==
  /\ Returned /\ ParseCall /\ Parse.err = Nil
  /\ Parse.parsedSql.Type = "CreateView"
  /\ \E i \in 1..(Len(Parse.parsedSql.ViewSelect) - 1) :
       Parse.parsedSql.ViewSelect[i] = " " /\ Parse.parsedSql.ViewSelect[i + 1] = " "

\* C18: the ViewSelect of a CREATE VIEW statement returned without error,
\* given to Parse on its own, is parsed without error as a Select statement
C18_ViewSelectReparses ==
  (Returned /\ ParseCall /\ Parse.err = Nil /\ Parse.parsedSql.Type = "CreateView"
     /\ Parse.parsedSql.ViewSelect # <<>>) =>
    LET r == parse(Parse.parsedSql.ViewSelect)
    IN r.err = Nil /\ r.q.Type = "Select"

\* C19: the parse of CREATE INDEX i ON t (a ASC) consumes the whole input,
\* every iteration of the main loop moving on, and returns without error a
\* CreateIndex statement with the table t and the column a
C19_CreateIndexParsed ==
  sqls = <<CreateIndexText>> =>
    /\ spin = 0
    /\ Returned =>
         /\ Parse.err = Nil
         /\ Parse.parsedSql.Type = "CreateIndex"
         /\ Parse.parsedSql.Tables = << <<"t">> >>
         /\ Parse.parsedSql.Fields = << <<"a">> >>

\* C20: the parses of GRANT SELECT ON TABLE t TO u and of REVOKE UPDATE ON
\* TABLE t FROM u consume the whole input, every iteration of the main
\* loop moving on, and return without error a Grant and a Revoke statement
C20_GrantRevokeParsed ==
  /\ sqls = <<GrantText>> =>
       /\ spin = 0
       /\ Returned => (Parse.err = Nil /\ Parse.parsedSql.Type = "Grant")
  /\ sqls = <<RevokeText>> =>
       /\ spin = 0
       /\ Returned => (Parse.err = Nil /\ Parse.parsedSql.Type = "Revoke")

\* C21: every column of a CREATE TABLE statement returned without error
\* has a DataType among SmallInt, Double, DateTime, Varchar
C21_DataTypeKnown ==
  (Returned /\ ParseCall /\ Parse.err = Nil /\ Parse.parsedSql.Type = "CreateTable") =>
    \A i \in 1..Len(Parse.parsedSql.CreateFields) :
      Parse.parsedSql.CreateFields[i].DataType \in {"SmallInt", "Double", "DateTime", "Varchar"}

\* C22: every Condition of a statement returned without error has a
\* recognized operator and no empty operand flagged as a field; a WHERE
\* clause that stops after the column name, or has no condition, is an error
C22_ConditionsComplete ==
  /\ (Returned /\ ParseCall /\ Parse.err = Nil) =>
       \A i \in 1..Len(Parse.parsedSql.Conditions) :
         LET c == Parse.parsedSql.Conditions[i]
         IN /\ c.Operator # "UnknownOperator"
            /\ c.Operand1IsField => c.Operand1 # <<>>
            /\ c.Operand2IsField => c.Operand2 # <<>>
  /\ \A sql \in {SelectWhereX, SelectWhere} : Parsed(sql) => Parse.err # Nil

Keywords ==
  {legalWords[k] : k \in 1..Len(legalWords)} \cup
  {W_OR, W_AS, W_DEFAULT, W_SMALLINT, W_DOUBLE, W_VARCHAR, W_DATETIME}

\* the keyword kw of letters stands in s from position i as a whole word
KeywordAt(s, i, kw) ==
  /\ kw[1] \in UpperSet
  /\ i + Len(kw) - 1 <= Len(s)
  /\ \A j \in 1..Len(kw) : s[i + j - 1] = kw[j]
  /\ i > 1 => s[i - 1] \notin IdentChars
  /\ i + Len(kw) <= Len(s) => s[i + Len(kw)] \notin IdentChars

\* where keywords stand in s: <<first position, last position>>
KeywordsIn(s) ==
  { o \in {<<i, i + Len(kw) - 1>> : i \in 1..Len(s), kw \in Keywords} :
      \E kw \in Keywords : Len(kw) = o[2] - o[1] + 1 /\ KeywordAt(s, o[1], kw) }

\* s with the characters at the positions of the set at in lower case
LoweredAt(s, at) ==
  [k \in 1..Len(s) |-> IF k \in at THEN Lowered(<<s[k]>>)[1] ELSE s[k]]

\* the spellings of s that differ from s in the case of its keywords only:
\* every keyword in lower case, every second letter of every keyword in
\* lower case, and one keyword in lower case
Respellings(s) ==
  LET in == UNION { o[1]..o[2] : o \in KeywordsIn(s) }
  IN {LoweredAt(s, in), LoweredAt(s, {k \in in : k % 2 = 0})} \cup
     { LoweredAt(s, o[1]..o[2]) : o \in KeywordsIn(s) }

\* the outcome of Parse for the text alt is the outcome of the Parse that
\* has returned: an error both times, or no error and statements for which
\* same holds
SameOutcome(alt, same(_, _)) ==
  LET r == parse(alt)
  IN /\ (r.err = Nil) <=> (Parse.err = Nil)
     /\ r.err = Nil => same(r.q, Parse.parsedSql)

\* the statements are equal
EqualSql(q1, q2) == q1 = q2

\* the statements are equal but for the case of the letters of ViewSelect
EqualButViewSelectCase(q1, q2) ==
  [q1 EXCEPT !.ViewSelect = ToUpper(@)] = [q2 EXCEPT !.ViewSelect = ToUpper(@)]

\* C24 as stated: a different-case spelling of the reserved words of a text
\* leaves the outcome of Parse unchanged
C24_CaseInsensitive ==
  (Returned /\ ParseCall) =>
    \A alt \in Respellings(sqls[1]) : SameOutcome(alt, EqualSql)

\* C24: a different-case spelling of the reserved words of a text leaves the
\* outcome of Parse unchanged but for the SELECT text of a CREATE VIEW, which
\* is stored as it was written
C24_CaseInsensitiveButViewSelect ==
  (Returned /\ ParseCall) =>
    \A alt \in Respellings(sqls[1]) :
      /\ SameOutcome(alt, EqualButViewSelectCase)
      /\ LET r == parse(alt)
         IN (r.err = Nil /\ r.q.ViewSelect = <<>>) => r.q = Parse.parsedSql

\* C24 happens: a statement with conditions chained by AND and OR has been
\* parsed, and a text of it in lower case differs from the one parsed
C24_Witness ==
  /\ Returned /\ ParseCall /\ Parse.err = Nil
  /\ Len(Parse.parsedSql.Conditions) >= 3
  /\ "Or" \in Range(Parse.parsedSql.ConditionOperators)
  /\ Cardinality(Respellings(sqls[1])) >= 6

\* the entry legalWords[i] is a proper prefix of the entry legalWords[j]
ProperPrefix(i, j) ==
  /\ Len(legalWords[i]) < Len(legalWords[j])
  /\ \A k \in 1..Len(legalWords[i]) : legalWords[i][k] = legalWords[j][k]

\* the indexes of the entries of legalWords that match the text being parsed
\* at position i
MatchingAt(i) == {k \in 1..Len(legalWords) : MatchesAt(p.sql, i, legalWords[k])}

\* C25: of two entries of legalWords where one is a proper prefix of the
\* other the longer comes earlier; so at every position of the text being
\* parsed the first entry that matches is the longest that matches, and
\* at ">=" and "<=" the scanner shows that token, of length 2
C25_LongerEntryFirst ==
  /\ \A i, j \in 1..Len(legalWords) : ProperPrefix(i, j) => j < i
  /\ pc = "doParse" =>
       \A i \in 0..(Len(p.sql) - 1) :
         LET at == [p EXCEPT !.position = i]
         IN /\ MatchingAt(i) # {} =>
                 \A k \in MatchingAt(i) :
                   Len(legalWords[k]) <= Len(legalWords[FirstLegalWord(at)])
            /\ \A w \in {GE, LE} :
                 Slice(p.sql, i, min(i + 2, Len(p.sql))) = w =>
                   peekWithLength(at) = [tok |-> w, len |-> 2]

\* C25 happens: the parser is at a ">=" or "<=", where two entries match
C25_Witness ==
  /\ pc = "doParse"
  /\ p.position < Len(p.sql)
  /\ Cardinality(MatchingAt(p.position)) = 2
  /\ peek(p) \in {GE, LE}

\* the character of the text being parsed at the 0-based position i is a
\* single quote that is not immediately preceded by a backslash
ClosingQuoteAt(i) == p.sql[i + 1] = "'" /\ p.sql[i] # "\\"

\* C26: at a single quote the scanner shows the text strictly between that
\* quote and the first later quote not immediately preceded by a backslash,
\* with a length of that text's length plus 2; when there is no such later
\* quote it shows the empty token with length 0
C26_QuotedLiteral ==
  pc = "doParse" =>
    \A open \in 0..(Len(p.sql) - 1) :
      p.sql[open + 1] = "'" =>
        LET at == [p EXCEPT !.position = open]
            later == (open + 1)..(Len(p.sql) - 1)
        IN /\ \A close \in later :
                (ClosingQuoteAt(close) /\ \A i \in (open + 1)..(close - 1) : ~ClosingQuoteAt(i)) =>
                  /\ peekWithLength(at).tok = [k \in 1..(close - open - 1) |-> p.sql[open + 1 + k]]
                  /\ peekWithLength(at).len = Len(peekWithLength(at).tok) + 2
           /\ (\A close \in later : ~ClosingQuoteAt(close)) =>
                peekWithLength(at) = [tok |-> <<>>, len |-> 0]

\* C26 happens: the parser is at a quoted literal with an escaped quote in it
C26_Witness ==
  /\ pc = "doParse"
  /\ p.position < Len(p.sql)
  /\ p.sql[p.position + 1] = "'"
  /\ peekWithLength(p).len = 6
  /\ \E k \in 1..Len(peek(p)) : peek(p)[k] = "'"

\* C27: pop moves the cursor just past the token peek shows and past the run
\* of spaces after it, to the end of the input or to a character that is not
\* a space, and changes nothing but the position; the token peek shows is
\* the text at the cursor (in upper case for a word of the vocabulary,
\* without its quotes for a literal)
C27_PopConsumesPeeked ==
  pc = "doParse" =>
    LET t == peekWithLength(p)
        after == pop(p)
        shown == Slice(p.sql, p.position, p.position + t.len)
    IN /\ t.tok = peek(p)
       /\ after = [p EXCEPT !.position = after.position]
       /\ after.position >= p.position + t.len
       /\ after.position <= Len(p.sql) \/ t.len = 0
       /\ \A i \in (p.position + t.len)..(after.position - 1) : p.sql[i + 1] = " "
       /\ after.position < Len(p.sql) => p.sql[after.position + 1] # " "
       /\ p.position + t.len <= Len(p.sql) =>
            \/ t.tok = shown
            \/ t.tok = ToUpper(shown) /\ t.tok \in {legalWords[k] : k \in 1..Len(legalWords)}
            \/ shown = QUOTE \o t.tok \o QUOTE

\* C27 happens: the parser is at a token followed by a space, which a pop
\* moves past
C27_Witness ==
  /\ pc = "doParse"
  /\ peekWithLength(p).len > 0
  /\ p.position + peekWithLength(p).len < Len(p.sql)
  /\ p.sql[p.position + peekWithLength(p).len + 1] = " "
  /\ pop(p).position > p.position + peekWithLength(p).len

\* C28: every iteration of the main loop either returns an error or moves
\* the position forward; none leaves the position where it was and goes on
C28_PopOrFail ==
  [][Iteration => (err' # Nil \/ p'.position > p.position)]_vars

\* "SELECT a FROM t WHERE x = '1' y": a name after the value of a comparison
SelectWhereValueName == Words(<<SelectWhere, <<"x">>, EQ, Quoted(<<"1">>), <<"y">>>>)

\* "DELETE FROM t u": a name after the table of a DELETE
DeleteTwoNames == Words(<<W_DELETE_FROM, <<"t">>, <<"u">>>>)

\* C29: a token the state cannot interpret ends the parse with an error: a
\* name after the value of a WHERE comparison, or after the table of a
\* DELETE, is an error, and no iteration that stays in stepWhereValue
\* replaces an Operand2 already read
C29_FirstBadTokenFails ==
  /\ \A sql \in {SelectWhereValueName, DeleteTwoNames} : Parsed(sql) => err # Nil
  /\ (pc = "doParse" /\ p.step = "stepWhereValue" /\ Len(p.query.Conditions) = 1
        /\ sqls = <<SelectWhereValueName>>) =>
       p.query.Conditions[1].Operand2 \in {<<>>, <<"1">>}

\* the columns of the statement being parsed whose foreign key is being defined
ForeignKeyInProgress(q) == {i \in 1..Len(q.CreateFields) : q.CreateFields[i].ForeignKeyFlag}

\* the states between the column of FOREIGN KEY (col) and the referenced column
ForeignKeySteps ==
  {"stepForeignKeyClosingParens", "stepForeignKeyReference", "stepForeignKeyReferenceTable",
   "stepForeignKeyReferenceFieldOpeningParens", "stepForeignKeyReferenceField"}

\* C30: at most one column has ForeignKeyFlag set; an iteration in
\* stepForeignKeyField sets it, and ForeignKey, on the column it names, the
\* REFERENCES table and column are written to the column with the flag and
\* to no other, reading the referenced column clears the flag, and no
\* other iteration changes the columns with the flag
C30_ForeignKeyInProgress ==
  /\ [](/\ Cardinality(ForeignKeyInProgress(p.query)) <= 1
        /\ (pc = "doParse" /\ p.step \in ForeignKeySteps) =>
              Cardinality(ForeignKeyInProgress(p.query)) = 1
        /\ \A i \in ForeignKeyInProgress(p.query) : p.query.CreateFields[i].ForeignKey)
  /\ [][(Iteration /\ err' = Nil) =>
          LET fields == p.query.CreateFields
              token == peek(p)
          IN CASE p.step = "stepForeignKeyField" ->
                    /\ ForeignKeyInProgress(p.query) = {}
                    /\ \E i \in ForeignKeyInProgress(p'.query) :
                         /\ fields[i].Name = token
                         /\ p'.query.CreateFields =
                              [fields EXCEPT ![i].Constraint = Append(@, "ForeignKey"),
                                             ![i].ForeignKey = TRUE,
                                             ![i].ForeignKeyFlag = TRUE]
               [] p.step = "stepForeignKeyReferenceTable" ->
                    \E i \in ForeignKeyInProgress(p.query) :
                      p'.query.CreateFields =
                        [fields EXCEPT ![i].ForeignKeyReferenceTable = token]
               [] p.step = "stepForeignKeyReferenceField" ->
                    \E i \in ForeignKeyInProgress(p.query) :
                      p'.query.CreateFields =
                        [fields EXCEPT ![i].ForeignKeyReferenceField = token,
                                       ![i].ForeignKeyFlag = FALSE]
               [] OTHER ->
                    /\ ForeignKeyInProgress(p'.query) = ForeignKeyInProgress(p.query)
                    /\ \A i \in 1..Len(fields) :
                         /\ p'.query.CreateFields[i].ForeignKeyReferenceTable =
                              fields[i].ForeignKeyReferenceTable
                         /\ p'.query.CreateFields[i].ForeignKeyReferenceField =
                              fields[i].ForeignKeyReferenceField
        ]_vars

\* C30 happens: a second FOREIGN KEY clause has been read to its referenced
\* column, each of the two columns having its own REFERENCES table
C30_Witness ==
  /\ pc = "doParse"
  /\ p.step = "stepForeignKeyReferenceFieldClosingParens"
  /\ Len(p.query.CreateFields) = 2
  /\ p.query.CreateFields[1].ForeignKeyReferenceTable = <<"v">>
  /\ p.query.CreateFields[1].ForeignKeyReferenceField = <<"b">>
  /\ p.query.CreateFields[2].ForeignKeyReferenceTable = <<"u">>
  /\ ForeignKeyInProgress(p.query) = {}

\* the flags of a column definition
FlagsOf(f) == <<f.PrimaryKey, f.NotNull, f.Unique, f.ForeignKey, f.ForeignKeyFlag>>

\* C31: an iteration in stepPrimaryKeyField returns an error when no column
\* defined so far has the name read, and otherwise sets PrimaryKey on the
\* last column of that name and changes no other flag of any column; a ','
\* after the closing parenthesis of the clause leads to stepCreateTableComma
C31_TrailingPrimaryKey ==
  [][Iteration =>
       LET fields == p.query.CreateFields
           named == {i \in 1..Len(fields) : fields[i].Name = peek(p)}
       IN /\ (p.step = "stepPrimaryKeyField" /\ named = {}) => err' # Nil
          /\ (p.step = "stepPrimaryKeyField" /\ named # {}) =>
               /\ err' = Nil
               /\ Len(p'.query.CreateFields) = Len(fields)
               /\ \A i \in 1..Len(fields) :
                    IF \A j \in named : j <= i /\ i \in named
                    THEN /\ p'.query.CreateFields[i].PrimaryKey
                         /\ FlagsOf(p'.query.CreateFields[i]) =
                              FlagsOf([fields[i] EXCEPT !.PrimaryKey = TRUE])
                    ELSE FlagsOf(p'.query.CreateFields[i]) = FlagsOf(fields[i])
          /\ (p.step = "stepPrimaryKeyCommaOrClosingParens" /\ peek(p) = RP
                /\ peek(pop(p)) = COMMA) =>
               err' = Nil /\ p'.step = "stepCreateTableComma"
    ]_vars

\* C31 happens: of two columns named a the PRIMARY KEY clause has marked the
\* second, and the parser is at the next key column
C31_Witness ==
  /\ pc = "doParse"
  /\ p.step = "stepPrimaryKeyField"
  /\ Len(p.query.CreateFields) = 2
  /\ p.query.CreateFields[1].Name = p.query.CreateFields[2].Name
  /\ p.query.CreateFields[2].PrimaryKey
  /\ ~p.query.CreateFields[1].PrimaryKey
  /\ FieldsNamed(p.query.CreateFields, peek(p)) = {}

\* "CREATE TABLE t (a SMALLINT NOT NULL UNIQUE)": a column with two constraints
CreateTableTwoConstraints ==
  Words(<<W_CREATE_TABLE, <<"t">>, LP \o <<"a">>, W_SMALLINT, W_NOT_NULL, W_UNIQUE \o RP>>)

\* C32: a column written with two inline constraints is accepted and has
\* both flags set
C32_TwoInlineConstraints ==
  Parsed(CreateTableTwoConstraints) =>
    /\ Parse.err = Nil
    /\ Len(Parse.parsedSql.CreateFields) = 1
    /\ Parse.parsedSql.CreateFields[1].NotNull
    /\ Parse.parsedSql.CreateFields[1].Unique

\* C33: once the closing parenthesis of the column list of CREATE TABLE has
\* been consumed a further token is an error: the text with a column after
\* the list is rejected, and no iteration that follows the one in
\* stepCreateTableClosingParens extends CreateFields
C33_NoColumnAfterList ==
  /\ Parsed(CreateTableAfterClosing) => Parse.err # Nil
  /\ (pc \in {"doParse", "returned"} /\ sqls = <<CreateTableAfterClosing>>) =>
       Len(p.query.CreateFields) <= 1

\* C34: a CHECK clause appends one check condition per predicate, in source
\* order, and one connective per AND or OR to the column being defined: the
\* clause (a IN (1, 2) AND a > 0) is accepted and leaves the column with the
\* conditions a IN (1, 2), a > 0 and the connective AND
C34_CheckClause ==
  Parsed(CreateTableCheckInAnd) =>
    /\ Parse.err = Nil
    /\ Len(Parse.parsedSql.CreateFields) = 1
    /\ LET f == Parse.parsedSql.CreateFields[1]
       IN /\ Len(f.CheckConditions) = 2
          /\ f.CheckConditions[1].Operator = "In"
          /\ f.CheckConditions[1].InConditions = <<<<"1">>, <<"2">>>>
          /\ f.CheckConditions[2].Operator = "Gt"
          /\ f.CheckConditions[2].Operand2 = <<"0">>
          /\ Len(f.CheckConditionsOperator) = Len(f.CheckConditions) - 1

\* the values of the column field of the table file hold no value twice
NoValueTwice(field) ==
  \A i, j \in 1..Len(field.Data) : field.Data[i] = field.Data[j] => i = j

\* C35: in the table file a column declared UNIQUE or PRIMARY KEY stores no
\* value twice, and a column declared NOT NULL or PRIMARY KEY stores no
\* empty value
C35_ConstraintsKept ==
  \A i \in 1..Len(table.Fields) :
    LET field == table.Fields[i]
    IN /\ (field.Unique \/ field.PrimaryKey) => NoValueTwice(field)
       /\ (field.NotNull \/ field.PrimaryKey) =>
            \A k \in 1..Len(field.Data) : field.Data[k] # <<>>

\* C36: on every table file, a handleInsert that returns an error leaves the
\* file as it was; one that succeeds has appended to each column named in
\* the INSERT the value of every row, in row order, has left the other
\* columns as they were, and returns the number of rows
C36_InsertAllOrNothing ==
  \A sql \in InsertSqls :
    LET r == handleInsert(table, sql)
    IN /\ r.err # Nil => r.table = table
       /\ r.err = Nil =>
            /\ r.rows = Len(sql.Inserts)
            /\ Len(r.table.Fields) = Len(table.Fields)
            /\ \A i \in 1..Len(table.Fields) :
                 LET at == {k \in 1..Len(sql.Fields) : sql.Fields[k] = table.Fields[i].Name}
                 IN /\ at = {} => r.table.Fields[i] = table.Fields[i]
                    /\ \A k \in at :
                         r.table.Fields[i].Data =
                           table.Fields[i].Data \o
                             [n \in 1..Len(sql.Inserts) |-> sql.Inserts[n][k]]

\* C36 happens: an INSERT has failed on a table that holds rows, and the
\* rows are still there
C36_Witness ==
  /\ op = "Insert"
  /\ herr = "at INSERT: insert value breaks UNIQUE constraint"
  /\ table.exists
  /\ Len(table.Fields[1].Data) = 2
  /\ Len(table.Fields[2].Data) = 2

\* C37: all columns of the table file hold the same number of values
C37_RowsAligned ==
  \A i, j \in 1..Len(table.Fields) :
    Len(table.Fields[i].Data) = Len(table.Fields[j].Data)

\* the states that read a field name and check it with isIdentifier
FieldNameSteps ==
  {"stepSelectField", "stepInsertFields", "stepUpdateField", "stepWhereField",
   "stepCreateTableField", "stepCreateViewField"}

\* C38: where the text at the cursor, in upper case, begins with an entry of
\* the vocabulary, peek shows an entry of the vocabulary even when
\* identifier characters follow it; an iteration in a state that reads a
\* field name returns an error there, and a statement with a field named
\* info, total or settings is rejected
C38_NoWordBoundary ==
  /\ [](/\ (pc = "doParse" /\ \E k \in 1..Len(legalWords) :
                                 MatchesAt(p.sql, p.position, legalWords[k])) =>
             /\ peek(p) \in {legalWords[k] : k \in 1..Len(legalWords)}
             /\ peek(p) = ToUpper(Slice(p.sql, p.position, p.position + Len(peek(p))))
             /\ ~isIdentifier(peek(p))
        /\ \A sql \in ReservedPrefixTexts : Parsed(sql) => err # Nil)
  /\ [][(Iteration /\ p.step \in FieldNameSteps /\ FirstLegalWord(p) # 0) => err' # Nil]_vars

\* C38 happens: the parser is to read a SELECT field at the name info, of
\* which peek shows IN
C38_Witness ==
  /\ pc = "doParse"
  /\ p.step = "stepSelectField"
  /\ peek(p) = W_IN
  /\ p.sql[p.position + 3] \in LowerSet

\* C39: in every reachable parser state 0 <= position <= len(sql); the
\* length the scanner returns is at most the number of bytes not yet
\* consumed; pop, popWhitespace and popToEnd leave position where it is or
\* move it forward, never past the end; and no step of a call of doParse
\* decreases position
C39_CursorBounds ==
  /\ [](/\ 0 <= p.position
        /\ p.position <= Len(p.sql)
        /\ peekWithLength(p).len \in 0..(Len(p.sql) - p.position)
        /\ peekIdentifierWithLength(p).len \in 0..(Len(p.sql) - p.position)
        /\ (p.position < Len(p.sql) =>
              peekQuotedStringWithLength(p).len \in 0..(Len(p.sql) - p.position))
        /\ pop(p).position \in p.position..Len(p.sql)
        /\ popWhitespace(p.sql, p.position) \in p.position..Len(p.sql)
        /\ popToEnd(p).position \in p.position..Len(p.sql))
  /\ [][pc = "doParse" => (p'.sql = p.sql /\ p'.position >= p.position)]_vars

\* C39 happens: in the middle of a statement the scanner reads a quoted
\* value that takes every byte that is left, and the statement has been read
\* to its end by pop
C39_Witness ==
  /\ pc = "doParse"
  /\ p.sql # <<>>
  /\ p.position = Len(p.sql)
  /\ p.sql[Len(p.sql)] = "'"
  /\ p.query.Conditions # <<>>

====
